---- MODULE Spec2Model ----
(***************************************************************************)
(* NoiseCanvas sampler (sampler.js, tick-based playPattern): the sample    *)
(* store, the per-channel playback state machine of buildPatternBuffers,   *)
(* the mixer, and the finite / infinite repeat playback over output sinks. *)
(*                                                                         *)
(* Numbers.  JavaScript doubles are modelled exactly where the code's       *)
(* values are dyadic or rational with a small denominator: a pitch ratio   *)
(* is a fraction <<num, den>>, 2^(k/12) being taken from a 12-entry table  *)
(* in 1/4096 units; the gains (255-pan)/255 and pan/255 are exact          *)
(* rationals; the mixer's 0.6/sqrt(n) is kept in thousandths.              *)
(***************************************************************************)
EXTENDS Integers, Sequences, FiniteSets, TLC

VARIABLES samples, input, sessions, channelStates, loads, conversion,
          modLoader, s3mLoader, lastLoad, converted, convertArgs, playback,
          activePlays, pendingPlays, now, calls, polls, clients, build, mix, web

\* the sampler, and what the other scenarios keep beside it
samplerVars == <<samples, input, sessions, channelStates>>
loaders == <<modLoader, s3mLoader, lastLoad, converted, convertArgs, playback>>
serving == <<activePlays, pendingPlays, now, calls, polls, clients>>
rendering == <<build, mix, web>>
beside == <<conversion, loaders, serving, rendering>>
others == <<loads, beside>>

vars == <<samples, input, sessions, channelStates, loads, conversion,
          modLoader, s3mLoader, lastLoad, converted, convertArgs, playback,
          activePlays, pendingPlays, now, calls, polls, clients, build, mix, web>>

(***************************************************************************)
(* Bounds of the exploration.                                              *)
(***************************************************************************)
MaxRows == 2
MaxCalls == 2
MaxLoops == 2
MaxLoads == 3
MaxRequests == 3

(***************************************************************************)
(* Program constants.                                                      *)
(***************************************************************************)
SampleRate == 44100
DefaultSpeed == 6
DefaultTempo == 125
DefaultRepeat == 1
DefaultVolume == 64
DefaultPan == 128
MinChannels == 4
Int16Min == -32768
Int16Max == 32767
PitchUnit == 4096
ScaleUnit == 1000

\* "absent" (undefined) for the numeric options and cell fields
Undefined == -1

Max(a, b) == IF a >= b THEN a ELSE b
Min(a, b) == IF a <= b THEN a ELSE b

\* The element of a singleton set.  An intermediate result that is used more
\* than once is bound as the element of a singleton set, The({e(x) : x \in {v}}),
\* so that it is evaluated once.
The(S) == CHOOSE x \in S : TRUE

RECURSIVE Gcd(_, _)
Gcd(a, b) == IF b = 0 THEN a ELSE The({Gcd(b, r) : r \in {a % b}})

RECURSIVE Pow2(_)
Pow2(k) == IF k <= 0 THEN 1 ELSE 2 * Pow2(k - 1)

Zeros(n) == [i \in 1..n |-> 0]

\* the integer square root of x, known to lie in lo..hi, by bisection
RECURSIVE Sqrt(_, _, _)
Sqrt(lo, hi, x) ==
  IF lo >= hi THEN lo
  ELSE The({IF mid * mid <= x
            THEN The({Sqrt(mid, h, x) : h \in {hi}})
            ELSE The({Sqrt(l, m, x) : l \in {lo}, m \in {mid - 1}}) :
            mid \in {(lo + hi + 1) \div 2}})

IndexOf(seq, x) ==
  IF \E i \in 1..Len(seq) : seq[i] = x
  THEN (CHOOSE i \in 1..Len(seq) : seq[i] = x /\ \A j \in 1..(i - 1) : seq[j] # x) - 1
  ELSE -1

(***************************************************************************)
(* Notes.  A note string is a sequence of characters, e.g. <<"C","-","4">>. *)
(***************************************************************************)
noteNames ==
  << <<"C">>, <<"C", "#">>, <<"D">>, <<"D", "#">>, <<"E">>, <<"F">>,
     <<"F", "#">>, <<"G">>, <<"G", "#">>, <<"A">>, <<"A", "#">>, <<"B">> >>

Letters == {"A", "B", "C", "D", "E", "F", "G"}
Digits == <<"0", "1", "2", "3", "4", "5", "6", "7", "8", "9">>

\* parseNote: /^([A-G]#?)[-]?(\d)$/, then octave * 12 + noteIndex
parseNote(note) ==
  LET n == Len(note)
      sharp == n >= 2 /\ note[2] = "#"
      next == IF sharp THEN 3 ELSE 2
      dash == n >= next /\ note[next] = "-"
      digitAt == IF dash THEN next + 1 ELSE next
      match == /\ n >= 2
               /\ note[1] \in Letters
               /\ digitAt = n
               /\ IndexOf(Digits, note[n]) >= 0
  IN IF ~match THEN [err |-> "InvalidNoteFormat", val |-> 0]
     ELSE LET noteName == IF sharp THEN <<note[1], "#">> ELSE <<note[1]>>
              octave == IndexOf(Digits, note[n])
              noteIndex == IndexOf(noteNames, noteName)
          IN IF noteIndex = -1 THEN [err |-> "InvalidNoteName", val |-> 0]
             ELSE [err |-> "", val |-> octave * 12 + noteIndex]

\* the distance between two notes instead of the signed difference
noteToSemitonesDistance(targetNote, baseNote) ==
  LET t == parseNote(targetNote)
      b == parseNote(baseNote)
  IN IF t.err # "" THEN t
     ELSE IF b.err # "" THEN b
     ELSE [err |-> "", val |-> IF t.val >= b.val THEN t.val - b.val ELSE b.val - t.val]

noteToSemitones(targetNote, baseNote) ==
  LET t == parseNote(targetNote)
      b == parseNote(baseNote)
  IN IF t.err # "" THEN t
     ELSE IF b.err # "" THEN b
     ELSE [err |-> "", val |-> t.val - b.val]

\* the browser sampler (WebAudioSampler): its own copy of the conversion
webParseNote(note) ==
  LET n == Len(note)
      sharp == n >= 2 /\ note[2] = "#"
      next == IF sharp THEN 3 ELSE 2
      dash == n >= next /\ note[next] = "-"
      digitAt == IF dash THEN next + 1 ELSE next
      match == /\ n >= 2
               /\ note[1] \in Letters
               /\ digitAt = n
               /\ IndexOf(Digits, note[n]) >= 0
  IN IF ~match THEN [err |-> "InvalidNoteFormat", val |-> 0]
     ELSE LET noteName == IF sharp THEN <<note[1], "#">> ELSE <<note[1]>>
              octave == IndexOf(Digits, note[n])
              noteIndex == IndexOf(noteNames, noteName)
          IN IF noteIndex = -1 THEN [err |-> "InvalidNoteName", val |-> 0]
             ELSE [err |-> "", val |-> octave * 12 + noteIndex]

webNoteToSemitones(targetNote, baseNote) ==
  LET t == webParseNote(targetNote)
      b == webParseNote(baseNote)
  IN IF t.err # "" THEN t
     ELSE IF b.err # "" THEN b
     ELSE [err |-> "", val |-> t.val - b.val]

\* round(4096 * 2^(k/12)) for k = 0..11
PitchTable == <<4096, 4340, 4598, 4871, 5161, 5468, 5793, 6137, 6502, 6889, 7298, 7732>>

\* Math.pow(2, semitone / 12) as a reduced fraction <<num, den>>
PitchRatio(semitone) ==
  LET oct == semitone \div 12
      k == semitone % 12
      num == PitchTable[k + 1] * Pow2(oct)
      den == PitchUnit * Pow2(-oct)
      g == Gcd(num, den)
  IN <<num \div g, den \div g>>

(***************************************************************************)
(* Sample store.                                                           *)
(***************************************************************************)
\* the sample files on disk and the options the callers load them with
NoteC2 == <<"C", "-", "2">>
NoteC4 == <<"C", "-", "4">>
NoteC5 == <<"C", "-", "5">>

SampleFiles ==
  [kick |-> [data |-> <<127, -128, 100>>,
             options |-> [baseNote |-> NoteC2, loopStart |-> 0, loopLength |-> 0, c4speed |-> 0]],
   pad  |-> [data |-> <<-128, 64, 127, -1>>,
             options |-> [baseNote |-> <<>>, loopStart |-> 1, loopLength |-> 3, c4speed |-> 0]]]

SampleNames == DOMAIN SampleFiles

\* an entry whose loop flag is set from loop length 2 on
SampleEntryLoopFromTwo(data, options) ==
  [data |-> data,
   baseNote |-> IF options.baseNote = <<>> THEN NoteC4 ELSE options.baseNote,
   c4speed |-> options.c4speed,
   loopStart |-> options.loopStart,
   loopLength |-> options.loopLength,
   hasLoop |-> options.loopLength >= 2]

\* the entry loadSample stores; "||" defaults: an absent option is <<>> / 0
SampleEntry(data, options) ==
  [data |-> data,
   baseNote |-> IF options.baseNote = <<>> THEN NoteC4 ELSE options.baseNote,
   c4speed |-> options.c4speed,
   loopStart |-> options.loopStart,
   loopLength |-> options.loopLength,
   hasLoop |-> options.loopLength > 2]

\* lines 499-505
hasSample(name) == name \in DOMAIN samples
getSample(name) == samples[name]

(***************************************************************************)
(* Pattern cells.  A step is null or an object; absent fields are           *)
(* Undefined (numbers), "undefined" (sample) or NoNote.                    *)
(***************************************************************************)
NoNote == [str |-> FALSE, chars |-> <<>>, semi |-> 0]
NoteStr(chars) == [str |-> TRUE, chars |-> chars, semi |-> 0]
NoteNum(semi) == [str |-> FALSE, chars |-> <<>>, semi |-> semi]

NullStep ==
  [nil |-> TRUE, sample |-> "undefined", note |-> NoNote, volume |-> Undefined,
   pan |-> Undefined, effect |-> "", effectParam |-> 0]

Step(sample, note, volume, pan, effect, effectParam) ==
  [nil |-> FALSE, sample |-> sample, note |-> note, volume |-> volume,
   pan |-> pan, effect |-> effect, effectParam |-> effectParam]

\* a row is an array of steps, or (not an array) a single step
ArrayRow(steps) == [isArray |-> TRUE, steps |-> steps]
BareRow(step) == [isArray |-> FALSE, steps |-> <<step>>]

(***************************************************************************)
(* Channel state of buildPatternBuffers.                                   *)
(***************************************************************************)
NoDelayed ==
  [set |-> FALSE, sample |-> "null", sampleData |-> <<>>, pitchRatio |-> <<1, 1>>,
   hasLoop |-> FALSE, loopStart |-> 0, loopEnd |-> 0, volume |-> 0, pan |-> 0]

InitChannelState ==
  [sample |-> "null", sampleData |-> <<>>, position |-> 0, pitchRatio |-> <<1, 1>>,
   volume |-> DefaultVolume, pan |-> DefaultPan, hasLoop |-> FALSE, loopStart |-> 0,
   loopEnd |-> 0, active |-> FALSE, delayedNote |-> NoDelayed, delayTicks |-> 0]

(***************************************************************************)
(* buildPatternBuffers: one (row, tick, channel) iteration.                *)
(***************************************************************************)
\* lines 696-712: sample lookup, note conversion, note delay
ResolveStep(step, store) ==
  IF step.sample \notin DOMAIN store
  THEN [err |-> "SampleNotFound", sample |-> SampleEntry(<<>>, SampleFiles.kick.options),
        pitchRatio |-> <<1, 1>>, delayTicks |-> 0]
  ELSE LET sample == store[step.sample]
           semitone == IF step.note.str
                       THEN noteToSemitones(step.note.chars, sample.baseNote)
                       ELSE [err |-> "", val |-> step.note.semi]
       IN [err |-> semitone.err,
           sample |-> sample,
           pitchRatio |-> IF semitone.err = "" THEN PitchRatio(semitone.val) ELSE <<1, 1>>,
           delayTicks |-> IF step.effect = "SD" /\ step.effectParam # 0
                          THEN step.effectParam ELSE 0]

StepVolume(step) == IF step.volume # Undefined THEN step.volume ELSE DefaultVolume
StepPan(step) == IF step.pan # Undefined THEN step.pan ELSE DefaultPan

\* lines 714-726: store the note for delayed triggering
StoreDelayed(state, step, r) ==
  [state EXCEPT
     !.delayedNote = [set |-> TRUE, sample |-> step.sample, sampleData |-> r.sample.data,
                      pitchRatio |-> r.pitchRatio, hasLoop |-> r.sample.hasLoop,
                      loopStart |-> r.sample.loopStart,
                      loopEnd |-> r.sample.loopStart + r.sample.loopLength,
                      volume |-> StepVolume(step), pan |-> StepPan(step)],
     !.delayTicks = r.delayTicks]

\* an immediate trigger that restarts the sample whatever is playing
TriggerNowRestarting(state, step, r) ==
  [state EXCEPT !.sample = step.sample,
                !.sampleData = r.sample.data,
                !.position = 0,
                !.pitchRatio = r.pitchRatio,
                !.hasLoop = r.sample.hasLoop,
                !.loopStart = r.sample.loopStart,
                !.loopEnd = r.sample.loopStart + r.sample.loopLength,
                !.active = TRUE,
                !.volume = StepVolume(step),
                !.pan = StepPan(step)]

\* lines 728-748: immediate note trigger
TriggerNow(state, step, r) ==
  LET isSameNote == /\ state.active
                    /\ state.sample = step.sample
                    /\ state.pitchRatio = r.pitchRatio
      reset == IF isSameNote THEN state
               ELSE [state EXCEPT !.sample = step.sample,
                                  !.sampleData = r.sample.data,
                                  !.position = 0,
                                  !.pitchRatio = r.pitchRatio,
                                  !.hasLoop = r.sample.hasLoop,
                                  !.loopStart = r.sample.loopStart,
                                  !.loopEnd = r.sample.loopStart + r.sample.loopLength,
                                  !.active = TRUE]
  IN [reset EXCEPT !.volume = StepVolume(step), !.pan = StepPan(step)]

\* lines 695-749: at tick 0, process the step of this channel
ProcessStep(state, step, tick, store) ==
  IF tick # 0 \/ step.nil THEN [err |-> "", state |-> state]
  ELSE LET r == ResolveStep(step, store)
       IN IF r.err # "" THEN [err |-> r.err, state |-> state]
          ELSE IF r.delayTicks > 0
               THEN [err |-> "", state |-> StoreDelayed(state, step, r)]
               ELSE [err |-> "", state |-> TriggerNow(state, step, r)]

\* lines 752-769: count the delayed note down and trigger it at zero
CheckDelayed(state) ==
  IF state.delayedNote.set /\ state.delayTicks > 0
  THEN IF state.delayTicks - 1 = 0
       THEN [state EXCEPT !.delayTicks = 0,
                          !.sample = state.delayedNote.sample,
                          !.sampleData = state.delayedNote.sampleData,
                          !.position = 0,
                          !.pitchRatio = state.delayedNote.pitchRatio,
                          !.hasLoop = state.delayedNote.hasLoop,
                          !.loopStart = state.delayedNote.loopStart,
                          !.loopEnd = state.delayedNote.loopEnd,
                          !.volume = state.delayedNote.volume,
                          !.pan = state.delayedNote.pan,
                          !.active = TRUE,
                          !.delayedNote = NoDelayed]
       ELSE [state EXCEPT !.delayTicks = state.delayTicks - 1]
  ELSE state

InInt16(v) == Int16Min <= v /\ v <= Int16Max

\* lines 781-826: the frames one channel writes into its tick buffer.
\* Returns the values written (left, right, left, ...), the state after, and
\* "RangeError" when writeInt16LE is handed a value outside the 16-bit range.
RECURSIVE RenderFrames(_, _)
RenderFrames(state, remaining) ==
  IF remaining <= 0 THEN [err |-> "", state |-> state, out |-> <<>>]
  ELSE
    LET num == state.pitchRatio[1]
        den == state.pitchRatio[2]
        sourceIndex == (state.position * num) \div den
        fraction == (state.position * num) % den
        length == Len(state.sampleData)
        wraps == state.hasLoop /\ sourceIndex >= state.loopEnd
        loopLength == state.loopEnd - state.loopStart
        actualIndex == IF wraps /\ loopLength > 0
                       THEN state.loopStart + ((sourceIndex - state.loopStart) % loopLength)
                       ELSE sourceIndex
        Break(s) == [err |-> "", state |-> s, out |-> <<>>]
    IN IF wraps /\ loopLength <= 0 THEN Break([state EXCEPT !.active = FALSE])
       ELSE IF ~wraps /\ sourceIndex >= length THEN Break([state EXCEPT !.active = FALSE])
       ELSE IF ~(actualIndex < length) THEN Break(state)
       ELSE
         LET sample1 == state.sampleData[actualIndex + 1]
             \* sample8bit * den
             sample8bit == IF fraction > 0 /\ actualIndex + 1 < length
                           THEN sample1 * den
                                + (state.sampleData[actualIndex + 2] - sample1) * fraction
                           ELSE sample1 * den
             \* floor(sample8bit * 256 * (volume / 64))
             sample16bit == (sample8bit * 4 * state.volume) \div den
             leftSample == (sample16bit * (255 - state.pan)) \div 255
             rightSample == (sample16bit * state.pan) \div 255
         IN IF ~InInt16(leftSample) \/ ~InInt16(rightSample)
            THEN [err |-> "RangeError", state |-> state, out |-> <<>>]
            ELSE The({[err |-> rest.err, state |-> rest.state,
                       out |-> <<leftSample, rightSample>> \o rest.out] :
                      rest \in {The({RenderFrames(s, remaining - 1) :
                                      s \in {[state EXCEPT !.position = state.position + 1]}})}})

\* no tick buffer contents for a channel that is not playing
RenderTickSkipIdle(state, tickDurationSamples) ==
  IF state.active
  THEN The({[err |-> r.err, state |-> r.state,
             buf |-> r.out \o Zeros(2 * tickDurationSamples - Len(r.out))] :
            r \in {RenderFrames(state, tickDurationSamples)}})
  ELSE [err |-> "", state |-> state, buf |-> <<>>]

\* lines 771-829: the zero-filled tick buffer of one channel
RenderTick(state, tickDurationSamples) ==
  IF state.active
  THEN The({[err |-> r.err, state |-> r.state,
             buf |-> r.out \o Zeros(2 * tickDurationSamples - Len(r.out))] :
            r \in {RenderFrames(state, tickDurationSamples)}})
  ELSE [err |-> "", state |-> state, buf |-> Zeros(2 * tickDurationSamples)]

\* lines 690-829: one channel at one tick of one row
ChannelTick(state, step, tick, store, tickDurationSamples) ==
  The({IF p.err # "" THEN [err |-> p.err, state |-> state, buf |-> <<>>]
       ELSE The({RenderTick(s, tickDurationSamples) : s \in {CheckDelayed(p.state)}}) :
       p \in {ProcessStep(state, step, tick, store)}})

(***************************************************************************)
(* playPattern: options, channel count, buildPatternBuffers, mixChannels.  *)
(***************************************************************************)
\* options: an absent (or zero, hence falsy) option is 0
Options(bpm, speed, tempo, repeat) ==
  [bpm |-> bpm, speed |-> speed, tempo |-> tempo, repeat |-> repeat]

SpeedOf(options) == IF options.speed # 0 THEN options.speed ELSE DefaultSpeed
TempoOf(options) == IF options.tempo # 0 THEN options.tempo ELSE DefaultTempo
RepeatOf(options) == IF options.repeat # 0 THEN options.repeat ELSE DefaultRepeat

\* Math.floor(44100 * (2.5 / tempo))
TickDurationSamples(tempo) == (SampleRate * 5) \div (2 * tempo)

\* the channel count taken from the first row only
NumChannelsFirstRow(pattern) ==
  IF pattern # <<>> /\ pattern[1].isArray
  THEN Max(MinChannels, Len(pattern[1].steps))
  ELSE MinChannels

\* lines 643-652
NumChannels(pattern) ==
  LET lens == {Len(pattern[r].steps) : r \in {q \in 1..Len(pattern) : pattern[q].isArray}}
  IN IF lens = {} THEN MinChannels
     ELSE Max(MinChannels, CHOOSE m \in lens : \A l \in lens : l <= m)

\* channel states kept from the previous build instead of created afresh
StaleChannelStates(numChannels) ==
  [c \in 1..numChannels |->
     IF c \in DOMAIN channelStates THEN channelStates[c] ELSE InitChannelState]

\* lines 662-676: the channel states a build starts from
NewChannelStates(numChannels) == [c \in 1..numChannels |-> InitChannelState]

\* lines 685-831: the row and tick loops flattened to one index k, the
\* channel loop inside each tick
RECURSIVE BuildFrom(_, _, _, _, _, _, _)
BuildFrom(k, acc, pattern, numChannels, speed, tickDurationSamples, store) ==
  IF acc.err # "" \/ k >= Len(pattern) * speed THEN acc
  ELSE LET row == k \div speed
           tick == k % speed
           steps == pattern[row + 1].steps
           step(ch) == IF ch <= Len(steps) THEN steps[ch] ELSE NullStep
           \* the channels of this tick in order, up to the first that throws
           Advance(r) ==
             LET thrown == {ch \in 1..numChannels : r[ch].err # ""}
                 first == IF thrown = {} THEN numChannels + 1
                          ELSE CHOOSE ch \in thrown : \A d \in thrown : ch <= d
             IN [err |-> IF thrown = {} THEN "" ELSE r[first].err,
                 states |-> [ch \in 1..numChannels |->
                               IF ch < first THEN r[ch].state ELSE acc.states[ch]],
                 buffers |-> [ch \in 1..numChannels |->
                                IF ch < first THEN Append(acc.buffers[ch], r[ch].buf)
                                ELSE acc.buffers[ch]]]
       IN The({BuildFrom(k + 1, next, pattern, numChannels, speed, tickDurationSamples, store) :
               next \in {The({Advance(r) :
                     r \in {[ch \in 1..numChannels |->
                               ChannelTick(acc.states[ch], step(ch), tick, store,
                                           tickDurationSamples)]}})}})

\* lines 655-846
buildPatternBuffers(pattern, numChannels, speed, tickDurationSamples, store) ==
  BuildFrom(0,
            [err |-> "", states |-> NewChannelStates(numChannels),
             buffers |-> [c \in 1..numChannels |-> <<>>]],
            pattern, numChannels, speed, tickDurationSamples, store)

RECURSIVE FlattenFrom(_, _)
FlattenFrom(bufs, k) ==
  IF k > Len(bufs) THEN <<>> ELSE bufs[k] \o FlattenFrom(bufs, k + 1)

\* the tick buffers of one channel, concatenated
Flatten(bufs) == The({FlattenFrom(b, 1) : b \in {bufs}})

\* 0.6 / Math.sqrt(channelCount), in thousandths
ScaleFactor(channelCount) ==
  Sqrt(0, ScaleUnit, (ScaleUnit * ScaleUnit * 36) \div (100 * channelCount))

\* Math.max(-32768, Math.min(32767, mixed)) stored into an Int16Array element:
\* clamped, then truncated toward zero.  v is the value in thousandths.
StoreMixed(v) ==
  The({IF x < Int16Min * ScaleUnit THEN Int16Min
       ELSE IF x > Int16Max * ScaleUnit THEN Int16Max
       ELSE IF x >= 0 THEN x \div ScaleUnit ELSE -((-x) \div ScaleUnit) :
       x \in {v}})

\* lines 871-893: one channel added into the mix
MixOne(mixed, channelData, scaleFactor) ==
  [i \in 1..Len(mixed) |->
     IF i <= Len(channelData)
     THEN StoreMixed(mixed[i] * ScaleUnit + channelData[i] * scaleFactor)
     ELSE mixed[i]]

RECURSIVE MixFrom(_, _, _, _)
MixFrom(c, mixed, channelBuffers, scaleFactor) ==
  IF c > Len(channelBuffers) THEN mixed
  ELSE The({MixFrom(c + 1, next, channelBuffers, scaleFactor) :
            next \in {The({MixOne(mixed, channelData, scaleFactor) :
                           channelData \in {Flatten(channelBuffers[c])}})}})

\* lines 852-900
mixChannels(channelBuffers) ==
  The({LET lens == {Len(Flatten(buffers[c])) : c \in 1..Len(buffers)}
           maxLength == IF lens = {} THEN 0 ELSE CHOOSE m \in lens : \A l \in lens : l <= m
       IN The({MixFrom(1, zeros, buffers, scaleFactor) :
               zeros \in {Zeros(maxLength)},
               scaleFactor \in {ScaleFactor(Len(buffers))}}) :
       buffers \in {channelBuffers}})

\* the repeat loop with an inclusive bound (r <= repeat)
RECURSIVE RepeatBuffersInclusive(_, _)
RepeatBuffersInclusive(patternBuffers, repeat) ==
  IF repeat < 0 THEN [c \in 1..Len(patternBuffers) |-> <<>>]
  ELSE The({[c \in 1..Len(patternBuffers) |-> patternBuffers[c] \o rest[c]] :
            rest \in {RepeatBuffersInclusive(patternBuffers, repeat - 1)}})

\* lines 941-947: every channel's tick buffers, repeat times over
RECURSIVE RepeatBuffers(_, _)
RepeatBuffers(patternBuffers, repeat) ==
  IF repeat <= 0 THEN [c \in 1..Len(patternBuffers) |-> <<>>]
  ELSE The({[c \in 1..Len(patternBuffers) |-> patternBuffers[c] \o rest[c]] :
            rest \in {RepeatBuffers(patternBuffers, repeat - 1)}})

(***************************************************************************)
(* Output sinks (Speaker) and playback sessions.                           *)
(***************************************************************************)
\* new Speaker(...); speaker.write(buffer); speaker.end()
NewSpeaker(buffer) == [buffer |-> buffer, played |-> 0, closed |-> FALSE]

\* the sink has played everything written to it and emits 'close'
Closed(speaker) == [speaker EXCEPT !.played = Len(speaker.buffer), !.closed = TRUE]

\* The session of one playPattern call: which call of the client it was, the
\* error it threw (if any), and the state of its closure and its sinks.
\* A call that threw before anything was played:
Failed(call, hasCallback, err) ==
  [call |-> call, hasCallback |-> hasCallback, err |-> err, infinite |-> FALSE, stopped |-> FALSE, patternBuffers |-> <<>>,
   speakers |-> <<>>, callbacks |-> 0]

\* playLoop with the completion callback fired after every loop
playLoopCallbackEachLoop(s) ==
  IF s.stopped
  THEN [s EXCEPT !.callbacks = IF s.hasCallback THEN @ + 1 ELSE @]
  ELSE [s EXCEPT !.speakers = Append(@, NewSpeaker(mixChannels(s.patternBuffers))),
                 !.callbacks = IF s.hasCallback THEN @ + 1 ELSE @]

\* playLoop that returns silently once stopped
playLoopSilentStop(s) ==
  IF s.stopped
  THEN s
  ELSE [s EXCEPT !.speakers = Append(@, NewSpeaker(mixChannels(s.patternBuffers)))]

\* lines 906-928: playLoop of the infinite-repeat closure
playLoop(s) ==
  IF s.stopped
  THEN [s EXCEPT !.callbacks = IF s.hasCallback THEN @ + 1 ELSE @]
  ELSE [s EXCEPT !.speakers = Append(@, NewSpeaker(mixChannels(s.patternBuffers)))]

\* lines 614-970: the session playPattern leaves behind and the channel
\* states its build ended with
playPatternResult(call, pattern, options, hasCallback, store) ==
  IF options.bpm = 0
  THEN [session |-> Failed(call, hasCallback, "BpmRequired"),
        built |-> FALSE, states |-> <<>>]
  ELSE
    LET speed == SpeedOf(options)
        tempo == TempoOf(options)
        repeat == RepeatOf(options)
        numChannels == NumChannels(pattern)
        base == [Failed(call, hasCallback, "") EXCEPT
                   !.infinite = (repeat = -1)]
        Outcome(b) ==
          IF b.err # ""
          THEN [session |-> Failed(call, hasCallback, b.err),
                built |-> TRUE, states |-> b.states]
          ELSE IF repeat = -1
          THEN [session |-> playLoop([base EXCEPT !.patternBuffers = b.buffers]),
                built |-> TRUE, states |-> b.states]
          ELSE [session |-> [base EXCEPT !.speakers =
                               <<NewSpeaker(mixChannels(RepeatBuffers(b.buffers, repeat)))>>],
                built |-> TRUE, states |-> b.states]
    IN The({Outcome(b) :
            b \in {buildPatternBuffers(pattern, numChannels, speed,
                                       TickDurationSamples(tempo), store)}})

(***************************************************************************)
(* Inputs of the exploration.                                              *)
(***************************************************************************)
Kick == Step("kick", NoteStr(NoteC2), Undefined, Undefined, "", 0)
Pad == Step("pad", NoteStr(NoteC5), 64, 255, "", 0)
Low == Step("pad", NoteNum(-12), 40, 128, "", 0)
Loud == Step("kick", NoteStr(NoteC2), 255, 0, "", 0)
Delayed == Step("pad", NoteStr(NoteC4), 48, 128, "SD", 2)
Ghost == Step("ghost", NoteStr(NoteC2), Undefined, Undefined, "", 0)
GhostDelayed == Step("ghost", NoteStr(NoteC2), 64, 128, "SD", 1)

Wide(step) == ArrayRow(<<NullStep, NullStep, NullStep, NullStep, step>>)

SilentRows == {ArrayRow(<<>>), Wide(NullStep)}

Rows ==
  SilentRows \cup {ArrayRow(<<Kick>>), ArrayRow(<<Loud>>), ArrayRow(<<Pad, Delayed>>),
                   Wide(GhostDelayed)}

PatternsOver(rows) == UNION {[1..n -> rows] : n \in 0..MaxRows}

\* patterns of the playback scenarios: one row each
ShortPatterns ==
  {<<>>, <<ArrayRow(<<Kick>>)>>, <<BareRow(Low)>>, <<ArrayRow(<<NullStep, Ghost>>)>>,
   <<Wide(GhostDelayed)>>}

Speeds == {0, 1, 2}
Tempos == {55125, 110250}
Repeats == {0, 1, 2, 3, -1, -2}

\* patterns played in a loop: a sample, and an unregistered sample
LoopPatterns == {<<ArrayRow(<<Kick>>)>>, <<Wide(GhostDelayed)>>}

\* infinite repeat with a completion callback
LoopInputs ==
  {[pattern |-> p, options |-> Options(240, 1, 110250, -1), hasCallback |-> TRUE] :
      p \in LoopPatterns}

\* playback without a completion callback, looped and once
NoCallbackInputs ==
  {[pattern |-> <<ArrayRow(<<Kick>>)>>, options |-> Options(240, 1, 110250, r),
    hasCallback |-> FALSE] : r \in {-1, 1}}

\* a cell that sets the volume and names no sample, after a note
VolumeOnly == Step("undefined", NoNote, 32, Undefined, "", 0)

SamplelessInputs ==
  {[pattern |-> <<ArrayRow(<<Kick>>), ArrayRow(<<VolumeOnly>>)>>,
    options |-> Options(240, 1, 110250, 1), hasCallback |-> TRUE]}

\* bpm as the only timing option: speed and tempo take their defaults
Bpms == {60, 120, 240, 480}

BpmOnlyInputs ==
  {[pattern |-> p, options |-> Options(b, 0, 0, 1), hasCallback |-> TRUE] :
      p \in {<<>>, <<ArrayRow(<<Kick, NullStep, NullStep, NullStep>>)>>}, b \in Bpms}

\* every finite repeat value
RepeatInputs ==
  {[pattern |-> p, options |-> Options(240, 1, 110250, r), hasCallback |-> TRUE] :
      p \in ShortPatterns, r \in Repeats \ {-1}}

\* silence: rows of one kind, at every speed and tempo
SilentPatterns == {[r \in 1..n |-> row] : n \in 0..MaxRows, row \in SilentRows}

Inputs ==
  {[pattern |-> p, options |-> Options(240, 2, 55125, 2), hasCallback |-> TRUE] :
      p \in PatternsOver(Rows)}
  \cup
  {[pattern |-> p, options |-> Options(240, s, t, 1), hasCallback |-> TRUE] :
      p \in SilentPatterns, s \in Speeds, t \in Tempos}
  \cup
  RepeatInputs
  \cup
  LoopInputs
  \cup
  NoCallbackInputs
  \cup
  SamplelessInputs
  \cup
  {[pattern |-> p, options |-> Options(0, 1, 110250, 1), hasCallback |-> TRUE] :
      p \in ShortPatterns}

\* the calls a client makes with its pattern: as given, once only, or with
\* every row padded with empty cells
Variants == {"same", "once", "padded"}

PadRow(row, n) ==
  ArrayRow([c \in 1..Max(n, Len(row.steps)) |->
              IF c <= Len(row.steps) THEN row.steps[c] ELSE NullStep])

PadWidth(pattern) ==
  LET lens == {Len(pattern[r].steps) : r \in 1..Len(pattern)}
  IN CHOOSE m \in lens \cup {4} : \A l \in lens \cup {4} : l <= m

PadPattern(pattern) ==
  [r \in 1..Len(pattern) |-> PadRow(pattern[r], PadWidth(pattern))]

VariantPattern(v) == IF v = "padded" THEN PadPattern(input.pattern) ELSE input.pattern
VariantOptions(v) ==
  IF v = "once" THEN [input.options EXCEPT !.repeat = 1] ELSE input.options

(***************************************************************************)
(* Module files.  A file is its bytes, a sequence over 0..255; a read past *)
(* the end of a Buffer throws a RangeError, toString clips to the end.     *)
(***************************************************************************)
SetMax(S) == CHOOSE m \in S : \A x \in S : x <= m
SetMin(S) == CHOOSE m \in S : \A x \in S : m <= x

\* buffer.readUInt8 / readInt8 / readUInt16BE / readUInt16LE / readUInt32LE
U8(buffer, offset) == buffer[offset + 1]
I8(buffer, offset) == IF buffer[offset + 1] > 127 THEN buffer[offset + 1] - 256
                      ELSE buffer[offset + 1]
U16BE(buffer, offset) == buffer[offset + 1] * 256 + buffer[offset + 2]
U16LE(buffer, offset) == buffer[offset + 1] + buffer[offset + 2] * 256
U32LE(buffer, offset) ==
  buffer[offset + 1] + buffer[offset + 2] * 256 + buffer[offset + 3] * 65536
     + buffer[offset + 4] * 16777216

\* buffer.toString('ascii', start, end): character codes, the high bit dropped
Ascii(buffer, start, end) ==
  [i \in 1..Max(0, Min(end, Len(buffer)) - start) |-> buffer[start + i] % 128]

\* .replace(/\0/g, '').trim()
Whitespace == {9, 10, 11, 12, 13, 32}
Text(codes) ==
  LET chars == SelectSeq(codes, LAMBDA c : c # 0)
      keep == {i \in 1..Len(chars) : chars[i] \notin Whitespace}
  IN IF keep = {} THEN <<>> ELSE SubSeq(chars, SetMin(keep), SetMax(keep))

(***************************************************************************)
(* ModLoader (loader.js).                                                  *)
(***************************************************************************)
\* the constructor
NewModLoader ==
  [title |-> <<>>, samples |-> <<>>, numPatterns |-> 0, patternTable |-> <<>>,
   patterns |-> <<>>, initialSpeed |-> DefaultSpeed, initialTempo |-> DefaultTempo]

\* 'M.K.', '4CHN', '6CHN', '8CHN', 'FLT4', 'FLT8'
ModTags ==
  {<<77, 46, 75, 46>>, <<52, 67, 72, 78>>, <<54, 67, 72, 78>>, <<56, 67, 72, 78>>,
   <<70, 76, 84, 52>>, <<70, 76, 84, 56>>}

EmptyModSample ==
  [name |-> <<>>, length |-> 0, finetune |-> 0, volume |-> 0, loopStart |-> 0,
   loopLength |-> 0, data |-> <<>>]

\* one 30-byte sample header
SampleHeader(buffer, i) ==
  LET offset == 20 + 30 * (i - 1)
  IN [name |-> Text(Ascii(buffer, offset, offset + 22)),
      length |-> U16BE(buffer, offset + 22) * 2,
      finetune |-> U8(buffer, offset + 24) % 16,
      volume |-> U8(buffer, offset + 25),
      loopStart |-> U16BE(buffer, offset + 26) * 2,
      loopLength |-> U16BE(buffer, offset + 28) * 2,
      data |-> <<>>]

\* the sample headers of the file alone, without the padding
parseSamplesUnpadded(buffer, numSamples) ==
  [i \in 1..numSamples |-> SampleHeader(buffer, i)]

\* _parseSamples: the headers, then empty samples up to 31 entries
parseSamples(buffer, numSamples) ==
  [i \in 1..numSamples |-> SampleHeader(buffer, i)]
     \o [k \in 1..Max(0, 31 - numSamples) |-> EmptyModSample]

\* _parsePatterns: 64 rows of 4 cells of 4 bytes
parsePatterns(buffer, offset, numPatterns) ==
  [p \in 1..numPatterns |->
     [row \in 1..64 |->
        [ch \in 1..4 |->
           LET noteOffset == offset + (p - 1) * 1024 + (row - 1) * 16 + (ch - 1) * 4
               byte0 == U8(buffer, noteOffset)
               byte1 == U8(buffer, noteOffset + 1)
               byte2 == U8(buffer, noteOffset + 2)
               byte3 == U8(buffer, noteOffset + 3)
           IN [sample |-> ((byte0 \div 16) * 16) + (byte2 \div 16),
               period |-> ((byte0 % 16) * 256) + byte1,
               effect |-> byte2 % 16,
               effectParam |-> byte3]]]]

\* _readSampleData, the loop over the samples: each sample with a length
\* gets a zeroed buffer that is filled byte by byte until a read throws
RECURSIVE ReadModSampleData(_, _, _, _)
ReadModSampleData(i, list, buffer, offset) ==
  IF i > Len(list) THEN [samples |-> list, err |-> ""]
  ELSE IF list[i].length = 0 THEN ReadModSampleData(i + 1, list, buffer, offset)
  ELSE LET length == list[i].length
           readable == Max(0, Min(length, Len(buffer) - offset))
           filled == [list EXCEPT ![i].data =
                        [j \in 1..length |->
                           IF j <= readable THEN I8(buffer, offset + j - 1) ELSE 0]]
       IN IF readable < length THEN [samples |-> filled, err |-> "RangeError"]
          ELSE ReadModSampleData(i + 1, filled, buffer, offset + length)

\* _scanInitialTempo: the first cell with effect 0xF and a parameter, in the
\* patterns of the first three order positions
scanInitialTempo(loader) ==
  LET patternsToScan == Min(3, Len(loader.patterns))
      CellAt(k) == loader.patterns[loader.patternTable[(k \div 256) + 1] + 1]
                                  [((k % 256) \div 4) + 1][(k % 4) + 1]
      found == {k \in 0..(patternsToScan * 256 - 1) :
                  CellAt(k).effect = 15 /\ CellAt(k).effectParam > 0}
  IN IF found = {} THEN loader
     ELSE LET note == CellAt(SetMin(found))
          IN IF note.effectParam < 32
             THEN [loader EXCEPT !.initialSpeed = note.effectParam]
             ELSE [loader EXCEPT !.initialTempo = note.effectParam]

\* _readSampleData: the sample bytes, then the scan
readSampleData(loader, buffer, offset) ==
  LET r == ReadModSampleData(1, loader.samples, buffer, offset)
      filled == [loader EXCEPT !.samples = r.samples]
  IN IF r.err # "" THEN [loader |-> filled, err |-> r.err]
     ELSE [loader |-> scanInitialTempo(filled), err |-> ""]

\* load, from the bytes on: the loader as the call leaves it, and the error
\* thrown.  Each field is assigned when its part of the file has been read.
modLoad(loader, buffer) ==
  LET formatTag == Ascii(buffer, 1080, 1084)
      is31Sample == formatTag \in ModTags
      numSamples == IF is31Sample THEN 31 ELSE 15
      patternCountOffset == IF is31Sample THEN 950 ELSE 470
      patternTableOffset == IF is31Sample THEN 952 ELSE 472
      patternDataOffset == IF is31Sample THEN 1084 ELSE 600
      Thrown(l) == [loader |-> l, err |-> "RangeError"]
      titled == [loader EXCEPT !.title = Text(Ascii(buffer, 0, 20))]
  IN IF Len(buffer) < 20 + 30 * numSamples THEN Thrown(titled)
     ELSE IF Len(buffer) <= patternCountOffset
     THEN Thrown([titled EXCEPT !.samples = parseSamples(buffer, numSamples)])
     ELSE
       LET tabled == [titled EXCEPT
                        !.samples = parseSamples(buffer, numSamples),
                        !.numPatterns = U8(buffer, patternCountOffset),
                        !.patternTable =
                           [i \in 1..Min(128, Len(buffer) - patternTableOffset) |->
                              U8(buffer, patternTableOffset + i - 1)]]
       IN IF Len(tabled.patternTable) < 128 THEN Thrown(tabled)
          ELSE
            LET maxPattern == SetMax({tabled.patternTable[i] : i \in 1..128}) + 1
            IN IF Len(buffer) < patternDataOffset + maxPattern * 1024 THEN Thrown(tabled)
               ELSE readSampleData(
                      [tabled EXCEPT !.patterns =
                         parsePatterns(buffer, patternDataOffset, maxPattern)],
                      buffer, patternDataOffset + maxPattern * 1024)

\* a converted MOD cell (lines 446-462); the note name of the period table is
\* not part of this model
ModStep(note, ch) ==
  [nil |-> FALSE, sample |-> <<"mod_sample_", note.sample - 1>>,
   volume |-> IF note.effect = 12 THEN note.effectParam ELSE Undefined,
   pan |-> IF ch = 2 \/ ch = 3 THEN 255 ELSE 0]

\* convertPatterns(startPattern, numPatterns) of the MOD loader: the rows, or
\* the TypeError of a pattern that is not there
modConvertPatterns(loader, startPattern, numPatterns) ==
  LET endPattern == Min(startPattern + numPatterns, Len(loader.patternTable))
      positions == startPattern..(endPattern - 1)
      rows == 64 * Max(0, endPattern - startPattern)
      NoteAt(k, ch) ==
        loader.patterns[loader.patternTable[startPattern + (k \div 64) + 1] + 1]
                       [(k % 64) + 1][ch]
  IN IF \E pos \in positions : loader.patternTable[pos + 1] + 1 > Len(loader.patterns)
     THEN [done |-> TRUE, err |-> "TypeError", rows |-> <<>>]
     ELSE IF rows = 0 THEN [done |-> TRUE, err |-> "", rows |-> <<>>]
     ELSE [done |-> TRUE, err |-> "",
           rows |-> [k \in 1..rows |->
                       [ch \in 1..4 |->
                          IF NoteAt(k - 1, ch).sample > 0 /\ NoteAt(k - 1, ch).period > 0
                          THEN ModStep(NoteAt(k - 1, ch), ch) ELSE NullStep]]]

\* a file of len bytes: zeros, with the given byte runs written at their offsets
Image(len, runs) ==
  [i \in 1..len |->
     LET hit == {k \in DOMAIN runs : runs[k].at < i /\ i <= runs[k].at + Len(runs[k].bytes)}
     IN IF hit = {} THEN 0 ELSE runs[SetMax(hit)].bytes[i - runs[SetMax(hit)].at]]

Run(at, bytes) == [at |-> at, bytes |-> bytes]

\* MOD files with one pattern and one 4-byte sample.  The first cell plays
\* sample 1 at period 428 with an effect: F03 (speed 3), C40 (volume), F80 (tempo)
ModSong(title, effect) ==
  Image(2112, <<Run(0, title), Run(42, <<0, 2>>), Run(45, <<64>>), Run(950, <<1>>),
                Run(1080, <<77, 46, 75, 46>>), Run(1084, <<1, 172>> \o effect),
                Run(2108, <<127, 128, 1, 255>>)>>)

\* the 15-sample layout: no format tag, pattern data from offset 600
OldModSong(title, effect) ==
  Image(1628, <<Run(0, title), Run(42, <<0, 2>>), Run(45, <<64>>), Run(470, <<1>>),
                Run(600, <<1, 172>> \o effect), Run(1624, <<127, 128, 1, 255>>)>>)

\* two patterns in the order table; the second one sets the tempo to 160
LongModSong ==
  Image(3136, <<Run(0, <<76, 79, 78, 71>>), Run(42, <<0, 2>>), Run(45, <<48>>),
                Run(950, <<2, 0, 0, 1>>), Run(1080, <<70, 76, 84, 52>>),
                Run(1084, <<1, 172, 28, 32>>), Run(2108, <<0, 0, 15, 160>>),
                Run(3132, <<1, 2, 3, 252>>)>>)

\* two patterns in the order 0, 0, 1; the second one sets the speed to 3
TwiceModSong ==
  Image(3136, <<Run(0, <<84, 87, 73, 67, 69>>), Run(42, <<0, 2>>), Run(45, <<48>>),
                Run(950, <<3, 0, 0, 0, 1>>), Run(1080, <<77, 46, 75, 46>>),
                Run(1084, <<1, 172, 28, 32>>), Run(2108, <<0, 0, 15, 3>>),
                Run(3132, <<1, 2, 3, 252>>)>>)

ModFiles ==
  [fast  |-> ModSong(<<70, 65, 83, 84>>, <<31, 3>>),
   long  |-> LongModSong,
   twice |-> TwiceModSong,
   plain |-> ModSong(<<80, 76, 65, 73, 78>>, <<28, 64>>),
   old   |-> OldModSong(<<79, 76, 68>>, <<31, 128>>),
   \* cut off inside the pattern data, inside the sample data, inside the headers
   cut   |-> SubSeq(ModSong(<<67, 85, 84>>, <<28, 64>>), 1, 1500),
   clip  |-> SubSeq(ModSong(<<67, 76, 73, 80>>, <<28, 64>>), 1, 2110),
   stub  |-> SubSeq(OldModSong(<<83, 84, 85, 66>>, <<28, 64>>), 1, 100)]

\* the paths a client loads: the files, and a path with no file
ModPaths == DOMAIN ModFiles \cup {"missing"}

(***************************************************************************)
(* S3mLoader (s3m-loader.js).  null is Undefined in a number field, <<>>   *)
(* for data, NoCell for a pattern slot.                                    *)
(***************************************************************************)
\* the constructor; channelSettings is set by load only
NewS3mLoader ==
  [title |-> <<>>, initialSpeed |-> DefaultSpeed, initialTempo |-> DefaultTempo,
   globalVolume |-> DefaultVolume, orderCount |-> 0, instrumentCount |-> 0,
   patternCount |-> 0, instruments |-> <<>>, orders |-> <<>>, patterns |-> <<>>,
   channelSettings |-> <<>>]

\* a channel-settings byte read as that of an enabled channel
ChannelSettingEnabled(setting) ==
  [enabled |-> TRUE,
   pan |-> IF setting < 16 THEN (IF (setting \div 8) % 2 = 1 THEN 255 ELSE 0) ELSE 128,
   raw |-> setting]

\* lines 86-93: one channel-settings byte
ChannelSetting(setting) ==
  [enabled |-> setting < 128,
   pan |-> IF setting < 16 THEN (IF (setting \div 8) % 2 = 1 THEN 255 ELSE 0) ELSE 128,
   raw |-> setting]

\* lines 68-93: signature passed (so 48 bytes are there); the fields are
\* assigned one by one until a read throws
readHeader(loader, buffer) ==
  LET n == Len(buffer)
      counted == [loader EXCEPT !.title = Text(Ascii(buffer, 0, 28)),
                                !.orderCount = U16LE(buffer, 32),
                                !.instrumentCount = U16LE(buffer, 34),
                                !.patternCount = U16LE(buffer, 36)]
      played == [counted EXCEPT
                   !.globalVolume = IF n > 48 THEN U8(buffer, 48) ELSE @,
                   !.initialSpeed = IF n > 49 THEN U8(buffer, 49) ELSE @,
                   !.initialTempo = IF n > 50 THEN U8(buffer, 50) ELSE @]
      settings == [i \in 1..Max(0, Min(32, n - 64)) |-> ChannelSetting(U8(buffer, 63 + i))]
  IN IF n <= 50 THEN [loader |-> played, err |-> "RangeError"]
     ELSE [loader |-> [played EXCEPT !.channelSettings = settings],
           err |-> IF n < 96 THEN "RangeError" ELSE ""]

\* _readOrders: the order bytes read, markers 254 and 255 skipped
readOrders(loader, buffer) ==
  LET readable == Max(0, Min(loader.orderCount, Len(buffer) - 96))
      read == [i \in 1..readable |-> U8(buffer, 95 + i)]
  IN [loader |-> [loader EXCEPT !.orders = SelectSeq(read, LAMBDA o : o < 254)],
      err |-> IF readable < loader.orderCount THEN "RangeError" ELSE ""]

EmptyInstrument == [name |-> <<>>, length |-> 0, volume |-> 0, c4speed |-> 0, data |-> <<>>]

\* _readInstruments, instrument i (from 0): the entry pushed, or the throw
ReadInstrument(loader, buffer, i) ==
  LET n == Len(buffer)
      at == 96 + loader.orderCount + (i * 2)
      offset == U16LE(buffer, at) * 16
  IN IF at + 2 > n THEN [err |-> "RangeError", inst |-> EmptyInstrument]
     ELSE IF offset = 0 THEN [err |-> "", inst |-> EmptyInstrument]
     ELSE IF offset >= n THEN [err |-> "RangeError", inst |-> EmptyInstrument]
     ELSE IF U8(buffer, offset) # 1 THEN [err |-> "", inst |-> EmptyInstrument]
     ELSE IF offset + 36 > n THEN [err |-> "RangeError", inst |-> EmptyInstrument]
     ELSE IF Ascii(buffer, offset + 76, offset + 80) # <<83, 67, 82, 83>>
     THEN [err |-> "", inst |-> EmptyInstrument]
     ELSE [err |-> "",
           inst |-> [name |-> Text(Ascii(buffer, offset + 48, offset + 76)),
                     dosFilename |-> Text(Ascii(buffer, offset + 1, offset + 13)),
                     length |-> U32LE(buffer, offset + 16),
                     loopStart |-> U32LE(buffer, offset + 20),
                     loopEnd |-> U32LE(buffer, offset + 24),
                     volume |-> U8(buffer, offset + 28),
                     flags |-> U8(buffer, offset + 31),
                     c4speed |-> U32LE(buffer, offset + 32),
                     pack |-> U8(buffer, offset + 30),
                     data |-> <<>>,
                     memSeg |-> (U8(buffer, offset + 13) * 65536) + U16LE(buffer, offset + 14)]]

RECURSIVE ReadInstrumentsFrom(_, _, _)
ReadInstrumentsFrom(loader, buffer, i) ==
  IF i >= loader.instrumentCount THEN [loader |-> loader, err |-> ""]
  ELSE LET r == ReadInstrument(loader, buffer, i)
       IN IF r.err # "" THEN [loader |-> loader, err |-> r.err]
          ELSE ReadInstrumentsFrom([loader EXCEPT !.instruments = Append(@, r.inst)],
                                   buffer, i + 1)

\* _readInstruments
readInstruments(loader, buffer) ==
  ReadInstrumentsFrom([loader EXCEPT !.instruments = <<>>], buffer, 0)

NoCell ==
  [nil |-> TRUE, note |-> Undefined, instrument |-> Undefined, volume |-> Undefined,
   effect |-> Undefined, effectParam |-> Undefined]

\* lines 226-293: the packed rows of one pattern, from position pos
RECURSIVE Unpack(_, _, _, _)
Unpack(buffer, pos, currentRow, pattern) ==
  IF currentRow >= 64 THEN [err |-> "", pattern |-> pattern]
  ELSE IF pos >= Len(buffer) THEN [err |-> "RangeError", pattern |-> pattern]
  ELSE
    LET what == U8(buffer, pos)
        channel == what % 32
        hasNote == (what \div 32) % 2 = 1
        hasVolume == (what \div 64) % 2 = 1
        hasEffect == (what \div 128) % 2 = 1
        volumeAt == pos + 1 + (IF hasNote THEN 2 ELSE 0)
        effectAt == volumeAt + (IF hasVolume THEN 1 ELSE 0)
        next == effectAt + (IF hasEffect THEN 2 ELSE 0)
        \* a run of end-of-row bytes ends one row per byte; the run is read at once
        ends == SetMin({j \in pos..Len(buffer) : j = Len(buffer) \/ buffer[j + 1] # 0}) - pos
        rowsEnded == Min(ends, 64 - currentRow)
    IN IF what = 0 THEN Unpack(buffer, pos + rowsEnded, currentRow + rowsEnded, pattern)
       ELSE IF next > Len(buffer) THEN [err |-> "RangeError", pattern |-> pattern]
       ELSE The({Unpack(buffer, next, currentRow, filled) : filled \in {
              [pattern EXCEPT ![currentRow + 1][channel + 1] =
                 [nil |-> FALSE,
                  note |-> IF hasNote /\ U8(buffer, pos + 1) < 254
                           THEN U8(buffer, pos + 1) ELSE Undefined,
                  instrument |-> IF hasNote /\ U8(buffer, pos + 2) > 0
                                 THEN U8(buffer, pos + 2) ELSE Undefined,
                  volume |-> IF hasVolume /\ U8(buffer, volumeAt) # 255
                             THEN U8(buffer, volumeAt) ELSE Undefined,
                  effect |-> IF hasEffect THEN U8(buffer, effectAt) ELSE Undefined,
                  effectParam |-> IF hasEffect THEN U8(buffer, effectAt + 1)
                                  ELSE Undefined]]}})

\* _readPatterns, pattern p (from 0): the pattern pushed, or the throw
ReadPattern(loader, buffer, p) ==
  LET at == 96 + loader.orderCount + (loader.instrumentCount * 2) + (p * 2)
      offset == U16LE(buffer, at) * 16
  IN IF at + 2 > Len(buffer) THEN [err |-> "RangeError", pattern |-> <<>>]
     ELSE IF offset = 0
     THEN [err |-> "", pattern |-> [r \in 1..64 |-> [c \in 1..8 |-> NoCell]]]
     ELSE Unpack(buffer, offset + 2, 0, [r \in 1..64 |-> [c \in 1..32 |-> NoCell]])

RECURSIVE ReadPatternsFrom(_, _, _)
ReadPatternsFrom(loader, buffer, p) ==
  IF p >= loader.patternCount THEN [loader |-> loader, err |-> ""]
  ELSE LET r == ReadPattern(loader, buffer, p)
       IN IF r.err # "" THEN [loader |-> loader, err |-> r.err]
          ELSE ReadPatternsFrom([loader EXCEPT !.patterns = Append(@, r.pattern)],
                                buffer, p + 1)

\* _readPatterns
readPatterns(loader, buffer) ==
  ReadPatternsFrom([loader EXCEPT !.patterns = <<>>], buffer, 0)

\* _readSampleData: unsigned bytes to signed, into a zeroed buffer
RECURSIVE ReadS3mSampleData(_, _, _)
ReadS3mSampleData(loader, buffer, i) ==
  IF i > Len(loader.instruments) THEN [loader |-> loader, err |-> ""]
  ELSE IF ~(loader.instruments[i].length > 0 /\ loader.instruments[i].memSeg > 0)
  THEN ReadS3mSampleData(loader, buffer, i + 1)
  ELSE LET inst == loader.instruments[i]
           offset == inst.memSeg * 16
           readable == Max(0, Min(inst.length, Len(buffer) - offset))
           filled == [loader EXCEPT !.instruments[i].data =
                        [j \in 1..inst.length |->
                           IF j <= readable THEN U8(buffer, offset + j - 1) - 128 ELSE 0]]
       IN IF readable < inst.length THEN [loader |-> filled, err |-> "RangeError"]
          ELSE ReadS3mSampleData(filled, buffer, i + 1)

\* the next part of load, unless an earlier part threw
Then(r, Part(_)) == IF r.err # "" THEN r ELSE Part(r.loader)

\* load, from the bytes on: the loader as the call leaves it, and the error
s3mLoad(loader, buffer) ==
  IF Ascii(buffer, 44, 48) # <<83, 67, 82, 77>>
  THEN [loader |-> loader, err |-> "NotS3M"]
  ELSE Then(Then(Then(Then(readHeader(loader, buffer),
                           LAMBDA l : readOrders(l, buffer)),
                      LAMBDA l : readInstruments(l, buffer)),
                 LAMBDA l : readPatterns(l, buffer)),
            LAMBDA l : ReadS3mSampleData(l, buffer, 1))

\* lines 433-436: effect S (0x13) with parameter 0x8x... the note delay SDx, x > 0
hasNoteDelay(cell) ==
  /\ cell.effect = 19
  /\ cell.effectParam \div 16 = 8
  /\ cell.effectParam % 16 > 0

\* the volume column before effect C: the column's value wins
ResolveVolumeColumnWins(channelVolume, cell, inst) ==
  LET effect == IF cell.effect = 12 /\ cell.effectParam # Undefined
                THEN Min(cell.effectParam, 64) ELSE channelVolume
      column == IF cell.volume # Undefined /\ cell.volume <= 64
                THEN cell.volume ELSE effect
  IN IF column = 64 /\ cell.volume = Undefined /\ cell.effect # 12
     THEN inst.volume ELSE column

\* lines 476-500: the volume of a note cell; it is the channel's volume
\* from then on
ResolveVolume(channelVolume, cell, inst) ==
  LET column == IF cell.volume # Undefined /\ cell.volume <= 64
                THEN cell.volume ELSE channelVolume
      effect == IF cell.effect = 12 /\ cell.effectParam # Undefined
                THEN Min(cell.effectParam, 64) ELSE column
  IN IF effect = 64 /\ cell.volume = Undefined /\ cell.effect # 12
     THEN inst.volume ELSE effect

\* line 430: a cell with an instrument and a note
IsNoteCell(cell) == ~cell.nil /\ cell.instrument # Undefined /\ cell.note # Undefined

\* a converted cell; the note name (lines 446-469, floating point) is not
\* part of this model
S3mStep(cell, volume, pan) ==
  [nil |-> FALSE, sample |-> <<"s3m_inst_", cell.instrument - 1>>, volume |-> volume,
   pan |-> pan]

\* lines 422-505 for one channel: its cells row after row from row k on,
\* the channel volume carried along.  The rows up to the next note all push
\* null and leave the channel volume alone; they are passed over together.
RECURSIVE ConvertChannel(_, _, _, _, _, _)
ConvertChannel(loader, cells, pan, k, channelVolume, acc) ==
  LET notes == {j \in k..Len(cells) : IsNoteCell(cells[j]) /\ ~hasNoteDelay(cells[j])}
      Nulls(n) == [j \in 1..n |-> NullStep]
  IN IF notes = {} THEN acc \o Nulls(Len(cells) + 1 - k)
     ELSE LET at == SetMin(notes)
              volume == ResolveVolume(channelVolume, cells[at],
                                      loader.instruments[cells[at].instrument])
          IN The({ConvertChannel(loader, cells, pan, at + 1, x[1], x[2]) :
                  x \in {<<volume, acc \o Nulls(at - k)
                                       \o <<S3mStep(cells[at], volume, pan)>>>>}})

\* convertPatterns(startOrder, numOrders): the rows, or the TypeError of a
\* pattern, channel setting or instrument that is not there
convertPatterns(loader, startOrder, numOrders) ==
  LET endOrder == Min(startOrder + numOrders, Len(loader.orders))
      positions == startOrder..(endOrder - 1)
      rows == 64 * Max(0, endOrder - startOrder)
      CellAt(k, ch) ==
        LET row == loader.patterns[loader.orders[startOrder + (k \div 64) + 1] + 1][(k % 64) + 1]
        IN IF ch <= Len(row) THEN row[ch] ELSE NoCell
      Enabled(ch) == loader.channelSettings[ch].enabled
      thrown ==
        \/ \E pos \in positions : loader.orders[pos + 1] + 1 > Len(loader.patterns)
        \/ rows > 0 /\ Len(loader.channelSettings) < 32
        \/ \E k \in 0..(rows - 1), ch \in 1..32 :
              /\ Enabled(ch)
              /\ IsNoteCell(CellAt(k, ch)) /\ ~hasNoteDelay(CellAt(k, ch))
              /\ CellAt(k, ch).instrument > Len(loader.instruments)
  IN IF thrown THEN [done |-> TRUE, err |-> "TypeError", rows |-> <<>>]
     ELSE IF rows = 0 THEN [done |-> TRUE, err |-> "", rows |-> <<>>]
     ELSE The({[done |-> TRUE, err |-> "",
                rows |-> [k \in 1..rows |-> [ch \in 1..32 |-> columns[ch][k]]]] :
               columns \in {[ch \in 1..32 |->
                  IF Enabled(ch)
                  THEN ConvertChannel(loader, [k \in 1..rows |-> CellAt(k - 1, ch)],
                                      loader.channelSettings[ch].pan, 1, 64, <<>>)
                  ELSE [k \in 1..rows |-> NullStep]]}})

\* an S3M file: two orders (pattern 0 and an end marker), one instrument of
\* 4 bytes with default volume 48, one packed pattern, channels 1 (left) and
\* 2 (right) enabled
S3mSong(title, speed, packed) ==
  Image(292, <<Run(0, title), Run(32, <<2, 0, 1, 0, 1, 0>>), Run(44, <<83, 67, 82, 77>>),
               Run(48, <<64, speed, 125>>), Run(64, <<0, 8>> \o [i \in 1..30 |-> 255]),
               Run(96, <<0, 255>>), Run(98, <<7, 0>>), Run(100, <<12, 0>>),
               Run(112, <<1>>), Run(126, <<18, 0>>), Run(128, <<4, 0, 0, 0>>),
               Run(140, <<48>>), Run(144, <<171, 32, 0, 0>>),
               Run(188, <<83, 67, 82, 83>>), Run(194, packed),
               Run(288, <<255, 0, 128, 129>>)>>)

\* the same file with two patterns, the second one with parapointer zero,
\* played in the order 1, 0, and with a tempo of its own
S3mPairSong(title, speed, tempo, packed) ==
  Image(292, <<Run(0, title), Run(32, <<2, 0, 1, 0, 2, 0>>), Run(44, <<83, 67, 82, 77>>),
               Run(48, <<64, speed, tempo>>), Run(64, <<0, 8>> \o [i \in 1..30 |-> 255]),
               Run(96, <<1, 0>>), Run(98, <<7, 0>>), Run(100, <<12, 0, 0, 0>>),
               Run(112, <<1>>), Run(126, <<18, 0>>), Run(128, <<4, 0, 0, 0>>),
               Run(140, <<48>>), Run(144, <<171, 32, 0, 0>>),
               Run(188, <<83, 67, 82, 83>>), Run(194, packed),
               Run(288, <<255, 0, 128, 129>>)>>)

\* row 1: a note on channel 1 and a note with column 20 on channel 3, which
\* is disabled; row 2: a note on channel 2
PairCells == <<32, 64, 1, 98, 64, 1, 20, 0, 33, 64, 1>>

\* note C-4 of instrument 1 on rows 1..4: column 20 with C 10, column 30 with
\* C 80, (channel 2) column 40 with C 255, then a bare note
LoudCells ==
  <<224, 64, 1, 20, 12, 10, 0, 224, 64, 1, 30, 12, 80, 0, 225, 64, 1, 40, 12, 255, 0,
    32, 64, 1>>

\* a bare note, a column 64, a bare note, C 0 alone, a note delayed by SD2
PlainCells ==
  <<32, 64, 1, 0, 96, 64, 1, 64, 0, 32, 64, 1, 0, 160, 64, 1, 12, 0, 0,
    160, 64, 1, 19, 130>>

S3mFiles ==
  [loud  |-> S3mSong(<<76, 79, 85, 68>>, 6, LoudCells),
   plain |-> S3mSong(<<80, 76, 65, 73, 78>>, 3, PlainCells),
   pair  |-> S3mPairSong(<<80, 65, 73, 82>>, 4, 150, PairCells),
   \* cut off inside the header and inside the packed pattern; no signature
   head  |-> SubSeq(S3mSong(<<72, 69, 65, 68>>, 4, LoudCells), 1, 60),
   torn  |-> SubSeq(S3mSong(<<84, 79, 82, 78>>, 5, LoudCells), 1, 210),
   other |-> Image(292, <<Run(0, <<79>>), Run(44, <<82, 73, 70, 70>>)>>)]

S3mPaths == DOMAIN S3mFiles \cup {"missing"}

(***************************************************************************)
(* PatternService (the play queue), the HTTP routes over it and the        *)
(* polling browser client.  A play is the playData object; its field call *)
(* is the object's identity, the number of the request that made it.       *)
(***************************************************************************)
RowsPerBeat == 4
DefaultMusicalBpm == 120
DefaultRowsPerMinute == 480
DefaultOctave == 4

\* a || b on numbers: undefined and 0 are falsy
OrElse(v, default) == IF v = Undefined \/ v = 0 THEN default ELSE v

\* api.js, lines 20-23
musicalBpmToTempo(musicalBpm) == musicalBpm * RowsPerBeat

\* formatNote: a name with an octave digit gets its dash, any other name
\* gets the default octave appended
formatNote(noteName, defaultOctave) ==
  LET n == Len(noteName)
      inner == SubSeq(noteName, 2, n - 1)
      hasOctave == /\ n >= 2
                   /\ noteName[1] \in Letters
                   /\ IndexOf(Digits, noteName[n]) > 0
                   /\ inner \in {<<>>, <<"#">>, <<"-">>, <<"#", "-">>}
  IN IF hasOctave
     THEN IF inner \in {<<>>, <<"#">>}
          THEN <<noteName[1]>> \o inner \o <<"-", noteName[n]>>
          ELSE noteName
     ELSE noteName \o <<"-", Digits[defaultOctave + 1]>>

\* a new PatternService, no request made, the clients idle; Date.now() is now
ServiceNew ==
  /\ activePlays = <<>>
  /\ pendingPlays = <<>>
  /\ now = 0
  /\ calls = <<>>
  /\ polls = <<>>
  /\ clients = [c \in {1, 2} |-> [polling |-> FALSE, plays |-> <<>>, played |-> <<>>]]

\* playNotes(notes, options) of string notes: the playData, or the throw
playNotes(notes, options, call, time) ==
  IF notes = <<>> THEN [err |-> "notes must be a non-empty array", playId |-> <<>>]
  ELSE [err |-> "",
        playId |-> <<"play_", time>>,
        pattern |-> [i \in 1..Len(notes) |->
                       [sample |-> "ST-01",
                        note |-> formatNote(notes[i], DefaultOctave),
                        volume |-> DefaultVolume]],
        tempo |-> OrElse(options.bpm, DefaultRowsPerMinute),
        bpm |-> Undefined, speed |-> Undefined, repeat |-> Undefined,
        notes |-> notes, startTime |-> time, call |-> call]

\* the playData that POST /play-pattern queues (api.js, lines 104-116)
patternPlayData(rows, bpm, speed, repeat, call, time) ==
  [err |-> "",
   playId |-> <<"pattern_", time>>,
   pattern |-> rows,
   tempo |-> Undefined,
   bpm |-> musicalBpmToTempo(OrElse(bpm, DefaultMusicalBpm)),
   speed |-> OrElse(speed, DefaultSpeed),
   repeat |-> OrElse(repeat, DefaultRepeat),
   notes |-> <<>>, startTime |-> time, call |-> call]

\* getPendingPlays that leaves the queue as it is
getPendingPlaysKeeping(pending) == [plays |-> pending, pendingPlays |-> pending]

\* getPendingPlays: a copy of the queue is returned and the queue is emptied
getPendingPlays(pending) == [plays |-> pending, pendingPlays |-> <<>>]

\* activePlays.set(playId, playData) on the Map kept as a list of entries
MapSet(map, key, value) ==
  IF \E i \in 1..Len(map) : map[i].key = key
  THEN [i \in 1..Len(map) |-> IF map[i].key = key THEN [key |-> key, value |-> value]
                                ELSE map[i]]
  ELSE Append(map, [key |-> key, value |-> value])

\* getPlay(playId): the play, or null
NoPlay == [err |-> "null", playId |-> <<>>]
getPlay(map, playId) ==
  IF \E i \in 1..Len(map) : map[i].key = playId
  THEN map[CHOOSE i \in 1..Len(map) : map[i].key = playId].value
  ELSE NoPlay

\* stopPlay(playId): activePlays.delete
stopPlay(map, playId) == SelectSeq(map, LAMBDA e : e.key # playId)

\* WebAudioSampler.playPattern as the polling client calls it: the tempo,
\* speed and repeat it plays with (rows per minute = 60 / rowDuration)
webPlayPattern(play) ==
  [call |-> play.call,
   tempo |-> OrElse(play.tempo, DefaultRowsPerMinute),
   speed |-> OrElse(play.speed, DefaultSpeed),
   repeat |-> OrElse(play.repeat, DefaultRepeat)]

(***************************************************************************)
(* Actions.                                                                *)
(***************************************************************************)
\* no note conversion asked for
NoConversion ==
  [targetNote |-> <<>>, baseNote |-> <<>>, done |-> FALSE,
   node |-> [err |-> "", val |-> 0], web |-> [err |-> "", val |-> 0]]

\* a new Sampler (lines 449-451) and the client's input
SamplerStart(inputs) ==
  /\ samples = <<>>
  /\ input \in inputs
  /\ sessions = <<>>
  /\ channelStates = <<>>
  /\ loads = <<>>

\* new loaders, nothing loaded
NoLoad == [loader |-> "", file |-> "", err |-> ""]

\* convertPatterns not called yet
NotConverted == [done |-> FALSE, err |-> "", rows |-> <<>>]

\* buildPatternBuffers is not being followed step by step
BuildIdle == [row |-> 0, tick |-> 0, channel |-> 0, phase |-> "idle", written |-> 0]

\* a new WebAudioSampler (part_011, constructor): no samples, nothing played
WebNew == [samples |-> <<>>, pattern |-> <<>>, scheduled |-> <<>>, err |-> ""]

\* mixChannels is not being applied on its own
MixIdle == [buffers |-> <<>>, mixed |-> <<>>, done |-> FALSE]

\* the arguments of the last convertPatterns call
NoArgs == [loader |-> "", startOrder |-> 0, numOrders |-> 0]

\* play() of a loader not called yet
NoPlayback == [loader |-> "", options |-> Options(<<0, 1>>, 0, 0, 0), speed |-> 0,
               tickDurationSamples |-> 0]

LoadersNew ==
  /\ modLoader = NewModLoader
  /\ s3mLoader = NewS3mLoader
  /\ lastLoad = NoLoad
  /\ converted = NotConverted
  /\ convertArgs = NoArgs
  /\ playback = NoPlayback

Start(inputs) ==
  /\ SamplerStart(inputs)
  /\ conversion = NoConversion
  /\ LoadersNew
  /\ ServiceNew
  /\ build = BuildIdle
  /\ mix = MixIdle
  /\ web = WebNew

Init == Start(Inputs)

\* a loadSample that keeps the entry a name already has
loadSampleKeepFirst(name, data, options) ==
  /\ samples' = [n \in (DOMAIN samples) \cup {name} |->
                   IF n \in DOMAIN samples THEN samples[n] ELSE SampleEntry(data, options)]
  /\ UNCHANGED <<input, sessions, channelStates>>

\* lines 484-496: Map.set of the entry built from the file's bytes
loadSample(name, data, options) ==
  /\ samples' = [n \in (DOMAIN samples) \cup {name} |->
                   IF n = name THEN SampleEntry(data, options) ELSE samples[n]]
  /\ UNCHANGED <<input, sessions, channelStates>>

LoadSample(name) ==
  /\ sessions = <<>>
  /\ loadSample(name, SampleFiles[name].data, SampleFiles[name].options)
  /\ UNCHANGED others

\* lines 482-497 with the file read of line 483: readFileSync throws for a
\* path with no file, before the store is touched
LoadFile(name, file, options) ==
  /\ Len(loads) < MaxLoads
  /\ IF file.exists
     THEN loadSample(name, file.data, options)
     ELSE UNCHANGED samplerVars
  /\ loads' = Append(loads, [name |-> name, file |-> file, options |-> options,
                             err |-> IF file.exists THEN "" ELSE "ENOENT"])
  /\ UNCHANGED beside

\* a playPattern that evicts the samples of a pattern it could not render
playPatternEvicting(call, pattern, options, hasCallback) ==
  \E r \in {The({playPatternResult(call, p, options, hasCallback, samples) :
                  p \in {pattern}})} :
     /\ sessions' = Append(sessions, r.session)
     /\ channelStates' = IF r.built THEN r.states ELSE channelStates
     /\ samples' = IF r.session.err = "" THEN samples
                   ELSE [n \in {m \in DOMAIN samples :
                                  \A q \in 1..Len(pattern) : \A c \in 1..Len(pattern[q].steps) :
                                     pattern[q].steps[c].sample # m} |-> samples[n]]
     /\ UNCHANGED <<input, others>>

\* lines 614-970
playPattern(call, pattern, options, hasCallback) ==
  \E r \in {The({playPatternResult(call, p, options, hasCallback, samples) :
                  p \in {pattern}})} :
     /\ sessions' = Append(sessions, r.session)
     /\ channelStates' = IF r.built THEN r.states ELSE channelStates
     /\ UNCHANGED <<samples, input, others>>

PlayPattern(v) ==
  /\ Len(sessions) < MaxCalls
  /\ playPattern(v, VariantPattern(v), VariantOptions(v), input.hasCallback)

HasOpenSpeaker(s) == s.speakers # <<>> /\ ~s.speakers[Len(s.speakers)].closed

CloseLast(s) == [s EXCEPT !.speakers[Len(s.speakers)] = Closed(@)]

\* stop() that also cuts the sink off in the middle of its buffer
StopAbrupt(i) ==
  /\ i \in DOMAIN sessions
  /\ sessions[i].infinite
  /\ sessions[i].err = ""
  /\ sessions' = [sessions EXCEPT
        ![i] = IF HasOpenSpeaker(sessions[i])
               THEN [sessions[i] EXCEPT !.stopped = TRUE,
                                        !.speakers[Len(sessions[i].speakers)].closed = TRUE]
               ELSE [sessions[i] EXCEPT !.stopped = TRUE]]
  /\ UNCHANGED <<samples, input, channelStates, others>>

\* lines 935-937: stop() of the control object an infinite-repeat call returns
Stop(i) ==
  /\ i \in DOMAIN sessions
  /\ sessions[i].infinite
  /\ sessions[i].err = ""
  /\ sessions' = [sessions EXCEPT ![i].stopped = TRUE]
  /\ UNCHANGED <<samples, input, channelStates, others>>

\* the next loop started when the sink has taken its buffer ('finish'),
\* before it has played it and closed
SpeakerFinish(i) ==
  /\ i \in DOMAIN sessions
  /\ HasOpenSpeaker(sessions[i])
  /\ sessions[i].infinite /\ ~sessions[i].stopped => Len(sessions[i].speakers) < MaxLoops
  /\ sessions' = [sessions EXCEPT ![i] =
        IF sessions[i].infinite
        THEN IF sessions[i].stopped THEN playLoop(CloseLast(sessions[i]))
             ELSE playLoop(sessions[i])
        ELSE [CloseLast(sessions[i]) EXCEPT
                !.callbacks = IF sessions[i].hasCallback THEN @ + 1 ELSE @]]
  /\ UNCHANGED <<samples, input, channelStates, others>>

\* the 'close' event of a session's sink: lines 924-927 (infinite repeat,
\* play the next loop) and 966-968 (finite repeat, the completion callback)
SpeakerClose(i) ==
  /\ i \in DOMAIN sessions
  /\ HasOpenSpeaker(sessions[i])
  /\ sessions[i].infinite /\ ~sessions[i].stopped => Len(sessions[i].speakers) < MaxLoops
  /\ sessions' = [sessions EXCEPT ![i] =
        IF sessions[i].infinite
        THEN playLoop(CloseLast(sessions[i]))
        ELSE [CloseLast(sessions[i]) EXCEPT
                !.callbacks = IF sessions[i].hasCallback THEN @ + 1 ELSE @]]
  /\ UNCHANGED <<samples, input, channelStates, others>>

Next ==
  \/ \E name \in SampleNames : LoadSample(name)
  \/ \E v \in Variants : PlayPattern(v)
  \/ \E i \in 1..Len(sessions) : Stop(i)
  \/ \E i \in 1..Len(sessions) : SpeakerClose(i)

Spec == Init /\ [][Next]_vars

\* the infinite-repeat scenarios alone
LoopInit == Init /\ input \in LoopInputs

LoopSpec == LoopInit /\ [][Next]_vars

\* bpm as the only timing option, the pattern played as given
BpmInit == Start(BpmOnlyInputs)

BpmNext ==
  \/ \E name \in SampleNames : LoadSample(name)
  \/ PlayPattern("same")
  \/ \E i \in 1..Len(sessions) : SpeakerClose(i)

BpmSpec == BpmInit /\ [][BpmNext]_vars

\* every sink that has been written and ended eventually emits 'close'
FairSpec == LoopSpec /\ \A i \in 1..MaxCalls : WF_vars(SpeakerClose(i))

(***************************************************************************)
(* The sample store on its own: any sequence of loadSample calls.          *)
(***************************************************************************)
StoreNames == {"kick", "pad"}

\* files on disk; the last is a path with no file
StoreFiles ==
  {[exists |-> TRUE, data |-> SampleFiles.kick.data],
   [exists |-> TRUE, data |-> SampleFiles.pad.data],
   [exists |-> FALSE, data |-> <<>>]}

\* options with the loop length absent, 2 and 3
StoreOptions ==
  {[baseNote |-> <<>>, loopStart |-> 0, loopLength |-> 0, c4speed |-> 0],
   [baseNote |-> NoteC2, loopStart |-> 0, loopLength |-> 2, c4speed |-> 0],
   [baseNote |-> <<>>, loopStart |-> 1, loopLength |-> 3, c4speed |-> 0]}

\* no pattern is played in this scenario
StoreInit == Init /\ input \in SamplelessInputs

StoreNext ==
  \E name \in StoreNames, file \in StoreFiles, options \in StoreOptions :
     LoadFile(name, file, options)

StoreSpec == StoreInit /\ [][StoreNext]_vars

(***************************************************************************)
(* Note conversion on its own, in the Node sampler and the browser         *)
(* sampler: one call per behaviour.                                        *)
(***************************************************************************)
NoteDigits == {"0", "4", "9"}

\* letter, optional sharp, optional dash, digit: the 12 note names and E#, B#
SpelledNotes ==
  {<<l>> \o s \o d \o <<o>> :
     l \in Letters, s \in {<<>>, <<"#">>}, d \in {<<>>, <<"-">>}, o \in NoteDigits}

\* strings the pattern does not match
MisspelledNotes == {<<"c", "-", "4">>, <<"C", "-">>, <<"C", "1", "0">>, <<"H", "4">>}

NoteStrings == SpelledNotes \cup MisspelledNotes

NoteInit ==
  /\ SamplerStart(SamplelessInputs)
  /\ conversion \in {[NoConversion EXCEPT !.targetNote = a, !.baseNote = b] :
                         a \in NoteStrings, b \in NoteStrings}
  /\ LoadersNew
  /\ ServiceNew
  /\ build = BuildIdle
  /\ mix = MixIdle
  /\ web = WebNew

\* sampler.noteToSemitones(targetNote, baseNote) in both samplers
NoteToSemitones ==
  /\ ~conversion.done
  /\ conversion' =
        [conversion EXCEPT
           !.done = TRUE,
           !.node = noteToSemitones(conversion.targetNote, conversion.baseNote),
           !.web = webNoteToSemitones(conversion.targetNote, conversion.baseNote)]
  /\ UNCHANGED <<samplerVars, loads, loaders, serving, rendering>>

NoteNext == NoteToSemitones

NoteSpec == NoteInit /\ [][NoteNext]_vars

(***************************************************************************)
(* The module loaders on their own: one loader of each kind, loading the   *)
(* files in any order.                                                     *)
(***************************************************************************)
\* loader.load(path): readFileSync throws for a path with no file
ModLoad(path) ==
  /\ IF path \in DOMAIN ModFiles
     THEN \E r \in {modLoad(modLoader, ModFiles[path])} :
             /\ modLoader' = r.loader
             /\ lastLoad' = [loader |-> "mod", file |-> path, err |-> r.err]
     ELSE /\ modLoader' = modLoader
          /\ lastLoad' = [loader |-> "mod", file |-> path, err |-> "ENOENT"]
  /\ UNCHANGED <<samplerVars, loads, conversion, s3mLoader, converted, convertArgs,
                 playback, serving,
                 rendering>>

ModInit == Start(SamplelessInputs)

ModNext == \E path \in ModPaths : ModLoad(path)

ModSpec == ModInit /\ [][ModNext]_vars

\* loader.load(path) of the S3M loader
S3mLoad(path) ==
  /\ IF path \in DOMAIN S3mFiles
     THEN \E r \in {s3mLoad(s3mLoader, S3mFiles[path])} :
             /\ s3mLoader' = r.loader
             /\ lastLoad' = [loader |-> "s3m", file |-> path, err |-> r.err]
     ELSE /\ s3mLoader' = s3mLoader
          /\ lastLoad' = [loader |-> "s3m", file |-> path, err |-> "ENOENT"]
  /\ UNCHANGED <<samplerVars, loads, conversion, modLoader, converted, convertArgs,
                 playback, serving,
                 rendering>>

\* convertPatterns over the whole order list, as play() calls it (lines 524-531)
S3mConvert ==
  /\ converted' = convertPatterns(s3mLoader, 0, Len(s3mLoader.orders))
  /\ convertArgs' = [loader |-> "s3m", startOrder |-> 0,
                      numOrders |-> Len(s3mLoader.orders)]
  /\ UNCHANGED <<samplerVars, loads, conversion, modLoader, s3mLoader, lastLoad,
                 playback, serving, rendering>>

S3mInit == Start(SamplelessInputs)

S3mNext ==
  \/ \E path \in S3mPaths : S3mLoad(path)
  \/ S3mConvert

S3mSpec == S3mInit /\ [][S3mNext]_vars

(***************************************************************************)
(* convertPatterns of both loaders called with a start and a count, on     *)
(* modules that loaded.                                                    *)
(***************************************************************************)
StartOrders == 0..2
NumOrders == 0..3

\* loader.convertPatterns(startOrder, numOrders) of the S3M loader
S3mConvertPart(startOrder, numOrders) ==
  /\ converted' = convertPatterns(s3mLoader, startOrder, numOrders)
  /\ convertArgs' = [loader |-> "s3m", startOrder |-> startOrder, numOrders |-> numOrders]
  /\ UNCHANGED <<samplerVars, loads, conversion, modLoader, s3mLoader, lastLoad,
                 playback, serving, rendering>>

\* loader.convertPatterns(startPattern, numPatterns) of the MOD loader
ModConvertPart(startPattern, numPatterns) ==
  /\ converted' = modConvertPatterns(modLoader, startPattern, numPatterns)
  /\ convertArgs' = [loader |-> "mod", startOrder |-> startPattern,
                      numOrders |-> numPatterns]
  /\ UNCHANGED <<samplerVars, loads, conversion, modLoader, s3mLoader, lastLoad,
                 playback, serving, rendering>>

ConvertInit == Start(SamplelessInputs)

ConvertNext ==
  \/ \E path \in {"plain", "pair"} : S3mLoad(path)
  \/ \E path \in {"long", "twice"} : ModLoad(path)
  \/ \E startOrder \in StartOrders, numOrders \in NumOrders :
        S3mConvertPart(startOrder, numOrders)
  \/ \E startPattern \in StartOrders, numPatterns \in NumOrders :
        ModConvertPart(startPattern, numPatterns)

ConvertSpec == ConvertInit /\ [][ConvertNext]_vars

(***************************************************************************)
(* play() of both loaders.  Of sampler.playPattern the action keeps the    *)
(* options it is handed and the timing it derives from them (sampler.js    *)
(* 630-639); the rendering of the rows with that timing is playPattern's.  *)
(***************************************************************************)
\* calculateBPM of the S3M loader, 60 / (speed * 2.5 / tempo * 2), and of the
\* MOD loader, 60 / (60 / (tempo * 24 / speed)), as fractions <<num, den>>
s3mCalculateBPM(loader) == <<12 * loader.initialTempo, loader.initialSpeed>>
modCalculateBPM(loader) == <<24 * loader.initialTempo, loader.initialSpeed>>

\* sampler.playPattern(samplerPattern, { bpm }, ...): the options, and the
\* speed and tick length the sampler renders every row with
loaderPlayback(loader, bpm) ==
  [loader |-> loader,
   options |-> Options(bpm, 0, 0, 0),
   speed |-> SpeedOf(Options(bpm, 0, 0, 0)),
   tickDurationSamples |-> TickDurationSamples(TempoOf(Options(bpm, 0, 0, 0)))]

\* the count of positions play converts: options.numOrders || orders.length
PlayCounts == {0, 2}

\* loader.play({numOrders}) of the S3M loader
S3mPlay(numOrders) ==
  /\ \E n \in {OrElse(numOrders, Len(s3mLoader.orders))} :
        /\ converted' = convertPatterns(s3mLoader, 0, n)
        /\ convertArgs' = [loader |-> "s3m", startOrder |-> 0, numOrders |-> n]
  /\ playback' = IF converted'.err # "" \/ s3mLoader.initialTempo = 0
                 THEN playback
                 ELSE loaderPlayback("s3m", s3mCalculateBPM(s3mLoader))
  /\ UNCHANGED <<samplerVars, loads, conversion, modLoader, s3mLoader, lastLoad,
                 serving, rendering>>

\* loader.play({numPatterns}) of the MOD loader
ModPlay(numPatterns) ==
  /\ \E n \in {OrElse(numPatterns, Len(modLoader.patternTable))} :
        /\ converted' = modConvertPatterns(modLoader, 0, n)
        /\ convertArgs' = [loader |-> "mod", startOrder |-> 0, numOrders |-> n]
  /\ playback' = IF converted'.err # "" \/ modLoader.initialTempo = 0
                 THEN playback
                 ELSE loaderPlayback("mod", modCalculateBPM(modLoader))
  /\ UNCHANGED <<samplerVars, loads, conversion, modLoader, s3mLoader, lastLoad,
                 serving, rendering>>

PlayInit == Start(SamplelessInputs)

PlayNext ==
  \/ \E path \in {"loud", "plain", "pair"} : S3mLoad(path)
  \/ \E path \in {"fast", "long"} : ModLoad(path)
  \/ \E numOrders \in PlayCounts : S3mPlay(numOrders)
  \/ \E numPatterns \in PlayCounts : ModPlay(numPatterns)

PlaySpec == PlayInit /\ [][PlayNext]_vars

(***************************************************************************)
(* WebAudioSampler (part_011): loadSample and playPattern.  A scheduled    *)
(* note is source.start(time) of scheduleNote; its time is kept as the row *)
(* it belongs to, counted over the repeats.                                *)
(***************************************************************************)
\* the cells of a pattern in the order playPattern visits them
WebCells(pattern, repeat) ==
  LET width == SetMax({Len(pattern[r].steps) : r \in DOMAIN pattern} \cup {0})
      n == repeat * Len(pattern) * width
      At(i) == [row |-> ((i - 1) \div width) + 1,
                channel |-> ((i - 1) % width) + 1]
      source(i) == pattern[((At(i).row - 1) % Len(pattern)) + 1].steps
  IN [i \in 1..n |->
        [row |-> At(i).row, channel |-> At(i).channel,
         step |-> IF At(i).channel <= Len(source(i)) THEN source(i)[At(i).channel]
                  ELSE NullStep]]

\* lines 178 and 199-200: the cell is handed to scheduleNote, which goes on
\* only with a registered sample
WebSchedulable(store, cell) ==
  /\ ~cell.step.nil /\ cell.step.sample # "undefined"
  /\ cell.step.sample \in DOMAIN store

\* noteToSemitones of scheduleNote (line 202) throws
WebThrows(store, cell) ==
  /\ WebSchedulable(store, cell)
  /\ \/ ~cell.step.note.str
     \/ webNoteToSemitones(cell.step.note.chars, store[cell.step.sample].baseNote).err # ""

\* playPattern (lines 161-191): the notes started, up to a throw
webSchedulePattern(store, pattern, repeat) ==
  LET cells == WebCells(pattern, repeat)
      thrown == {i \in DOMAIN cells : WebThrows(store, cells[i])}
      upto == IF thrown = {} THEN Len(cells) ELSE SetMin(thrown) - 1
      kept == SelectSeq(SubSeq(cells, 1, upto), LAMBDA c : WebSchedulable(store, c))
  IN [pattern |-> pattern,
      scheduled |-> [i \in DOMAIN kept |->
                       [row |-> kept[i].row, channel |-> kept[i].channel,
                        sample |-> kept[i].step.sample]],
      err |-> IF thrown = {} THEN "" ELSE "InvalidNote"]

WebSteps == {Kick, Ghost, NullStep}
WebRows == {ArrayRow(<<a, b>>) : a, b \in WebSteps}
WebPatterns == {<<r>> : r \in WebRows} \cup {<<r, q>> : r, q \in WebRows}

\* await sampler.loadSample(name, url, options), the fetch and the decoding
\* succeeded
WebLoadSample(name) ==
  /\ web' = [web EXCEPT !.samples =
               [n \in DOMAIN web.samples \cup {name} |->
                  IF n # name THEN web.samples[n]
                  ELSE [baseNote |-> IF SampleFiles[name].options.baseNote = <<>>
                                     THEN NoteC4
                                     ELSE SampleFiles[name].options.baseNote,
                        hasLoop |-> SampleFiles[name].options.loopLength > 2]]]
  /\ UNCHANGED <<samplerVars, loads, conversion, loaders, serving, build, mix>>

\* sampler.playPattern(pattern, {repeat})
WebPlayPattern(pattern, repeat) ==
  /\ \E r \in {webSchedulePattern(web.samples, pattern, repeat)} :
        web' = [web EXCEPT !.pattern = r.pattern, !.scheduled = r.scheduled,
                           !.err = r.err]
  /\ UNCHANGED <<samplerVars, loads, conversion, loaders, serving, build, mix>>

WebInit == Start(SamplelessInputs)

WebNext ==
  \/ \E name \in SampleNames : WebLoadSample(name)
  \/ \E pattern \in WebPatterns, repeat \in {1, 2} : WebPlayPattern(pattern, repeat)

WebSpec == WebInit /\ [][WebNext]_vars

(***************************************************************************)
(* The play queue on its own: requests of any client to the routes, polls  *)
(* of the browser clients, and the clock.  A handler runs to completion    *)
(* before the next one starts (one JavaScript thread, no await before the  *)
(* queue is touched); a poll's response reaches its client in a later step.*)
(***************************************************************************)
Clients == {1, 2}

NoteC == <<"C">>
NoteD4 == <<"D", "4">>

\* request bodies: notes sent or not, rows sent or not, bpm sent or not
NotesBodies ==
  {[sent |-> TRUE, notes |-> n] : n \in {<<>>, <<NoteD4, NoteC>>}}
    \cup {[sent |-> FALSE, notes |-> <<>>]}
RowsBodies ==
  {[sent |-> TRUE, speed |-> 3,
    rows |-> <<<<[sample |-> "ST-01", note |-> NoteC, volume |-> 48]>>>>],
   [sent |-> FALSE, speed |-> Undefined, rows |-> <<>>]}
RequestBpms == {Undefined, 60}

\* what the model remembers of the requests that queued a play, in their
\* order: the route, the musical BPM asked for and the playData made
Call(route, bpm, play) ==
  [route |-> route, musicalBpm |-> OrElse(bpm, DefaultMusicalBpm), play |-> play]

\* POST /api/play-notes
PostPlayNotes(body, bpm) ==
  /\ Len(calls) + Len(polls) < MaxRequests
  /\ IF ~body.sent
     THEN UNCHANGED <<activePlays, pendingPlays, calls>>   \* status 400
     ELSE \E r \in {playNotes(body.notes,
                              [bpm |-> IF bpm = Undefined \/ bpm = 0 THEN Undefined
                                       ELSE musicalBpmToTempo(bpm)],
                              Len(calls) + 1, now)} :
            IF r.err # ""
            THEN UNCHANGED <<activePlays, pendingPlays, calls>>   \* status 500
            ELSE /\ activePlays' = MapSet(activePlays, r.playId, r)
                 /\ pendingPlays' = Append(pendingPlays, r)
                 /\ calls' = Append(calls, Call("play-notes", bpm, r))
  /\ UNCHANGED <<samplerVars, loads, conversion, loaders, rendering, now, polls, clients>>

\* POST /api/play-pattern
PostPlayPattern(body, bpm) ==
  /\ Len(calls) + Len(polls) < MaxRequests
  /\ IF ~body.sent
     THEN UNCHANGED <<pendingPlays, calls>>   \* status 400
     ELSE \E r \in {patternPlayData(body.rows, bpm, body.speed, Undefined,
                                    Len(calls) + 1, now)} :
            /\ pendingPlays' = Append(pendingPlays, r)
            /\ calls' = Append(calls, Call("play-pattern", bpm, r))
  /\ UNCHANGED <<samplerVars, loads, conversion, loaders, rendering, activePlays, now, polls,
                 clients>>

\* GET /api/pending-plays, sent by the interval callback of client c
GetPendingPlays(c) ==
  /\ Len(calls) + Len(polls) < MaxRequests
  /\ ~clients[c].polling
  /\ \E r \in {getPendingPlays(pendingPlays)} :
       /\ pendingPlays' = r.pendingPlays
       /\ polls' = Append(polls, r.plays)
       /\ clients' = [clients EXCEPT ![c].polling = TRUE, ![c].plays = r.plays]
  /\ UNCHANGED <<samplerVars, loads, conversion, loaders, rendering, activePlays, now, calls>>

\* the rest of the interval callback: every play of the response is played;
\* played is what the client's sampler was last asked to play
PlayPolled(c) ==
  /\ clients[c].polling
  /\ clients' = [clients EXCEPT
                   ![c].polling = FALSE,
                   ![c].plays = <<>>,
                   ![c].played = [i \in 1..Len(clients[c].plays) |->
                                     webPlayPattern(clients[c].plays[i])]]
  /\ UNCHANGED <<samplerVars, loads, conversion, loaders, rendering, activePlays, pendingPlays,
                 now, calls, polls>>

\* service.stopPlay(playId)
StopPlay(playId) ==
  /\ activePlays' = stopPlay(activePlays, playId)
  /\ UNCHANGED <<samplerVars, loads, conversion, loaders, rendering, pendingPlays, now, calls,
                 polls, clients>>

\* service.clearAll()
ClearAll ==
  /\ activePlays' = <<>>
  /\ UNCHANGED <<samplerVars, loads, conversion, loaders, rendering, pendingPlays, now, calls,
                 polls, clients>>

\* a millisecond passes.  The clock matters only through the playIds, that
\* is through whether two requests fall in the same millisecond, so it is
\* not run ahead of the requests.
ClockTick ==
  /\ now < Len(calls)
  /\ now' = now + 1
  /\ UNCHANGED <<samplerVars, loads, conversion, loaders, rendering, activePlays, pendingPlays,
                 calls, polls, clients>>

ServiceInit == Start(SamplelessInputs)

ServiceNext ==
  \/ \E body \in NotesBodies, bpm \in RequestBpms : PostPlayNotes(body, bpm)
  \/ \E body \in RowsBodies, bpm \in RequestBpms : PostPlayPattern(body, bpm)
  \/ \E c \in Clients : GetPendingPlays(c)
  \/ \E c \in Clients : PlayPolled(c)
  \/ \E n \in 1..Len(calls) : StopPlay(calls[n].play.playId)
  \/ ClearAll
  \/ ClockTick

ServiceSpec == ServiceInit /\ [][ServiceNext]_vars

(***************************************************************************)
(* buildPatternBuffers step by step: the row, tick and channel loops with  *)
(* the three blocks of the loop body as steps of their own (the cell at    *)
(* tick 0, the delayed note, the rendering loop one frame at a time), on   *)
(* a store that loadSample filled.  build is the place in the loops.       *)
(***************************************************************************)
\* the store after loadSample of four files: a one-shot, a loop up to the
\* end of the data, a loop that ends inside the data, and a loop whose
\* options reach past the end of the data
BuildStore ==
  [kick |-> SampleEntry(SampleFiles.kick.data, SampleFiles.kick.options),
   pad  |-> SampleEntry(SampleFiles.pad.data, SampleFiles.pad.options),
   loop |-> SampleEntry(<<10, 20, 30, 40, 50, 60>>,
                        [baseNote |-> <<>>, loopStart |-> 1, loopLength |-> 3, c4speed |-> 0]),
   over |-> SampleEntry(<<10, 20, 30, 40>>,
                        [baseNote |-> <<>>, loopStart |-> 2, loopLength |-> 3, c4speed |-> 0]),
   wide |-> SampleEntry(<<10, 20, 30, 40, 50>>,
                        [baseNote |-> <<>>, loopStart |-> 1, loopLength |-> 5, c4speed |-> 0])]

NoteC3 == <<"C", "-", "3">>

PadC4 == Step("pad", NoteStr(NoteC4), 40, 200, "", 0)
PadC4Quiet == Step("pad", NoteStr(NoteC4), 20, Undefined, "", 0)
PadC5 == Step("pad", NoteStr(NoteC5), Undefined, 0, "", 0)
PadLater(d) == Step("pad", NoteStr(NoteC4), 48, 128, "SD", d)
LoopC3 == Step("loop", NoteStr(NoteC3), 64, 128, "", 0)
OverC4 == Step("over", NoteStr(NoteC4), 64, 128, "", 0)
OverC3 == Step("over", NoteStr(NoteC3), 64, 128, "", 0)
WideC5 == Step("wide", NoteStr(NoteC5), 64, 128, "", 0)

BuildPatterns ==
  {<<ArrayRow(<<PadC4, Kick>>), ArrayRow(<<PadC4Quiet, NullStep>>), ArrayRow(<<PadC5, Kick>>)>>,
   <<ArrayRow(<<Kick, PadLater(2)>>), ArrayRow(<<NullStep, NullStep>>)>>,
   <<ArrayRow(<<PadLater(1), PadC4>>), ArrayRow(<<Kick, PadLater(3)>>), ArrayRow(<<PadC5>>)>>,
   <<BareRow(OverC4), ArrayRow(<<>>), ArrayRow(<<NullStep, PadC4>>)>>,
   <<ArrayRow(<<LoopC3>>), ArrayRow(<<NullStep>>), ArrayRow(<<NullStep, PadC5>>)>>,
   <<ArrayRow(<<Kick, Ghost>>), ArrayRow(<<Kick>>)>>,
   <<ArrayRow(<<OverC3, WideC5>>), ArrayRow(<<>>), ArrayRow(<<>>)>>,
   <<ArrayRow(<<PadLater(3), PadLater(3)>>), ArrayRow(<<Kick, PadLater(2)>>),
     ArrayRow(<<NullStep, NullStep>>)>>,
   <<ArrayRow(<<Kick, NullStep, LoopC3, OverC4, PadC4>>), ArrayRow(<<Kick, OverC4>>)>>}

BuildInputs ==
  {[pattern |-> p, options |-> Options(240, s, t, 1), hasCallback |-> TRUE] :
      p \in BuildPatterns, s \in {1, 2, 3}, t \in Tempos}

\* the loop variables: row (from 1), tick (from 0), channel (from 1), the
\* block of the body that comes next, and the frames written to the tick
\* buffer of this channel
BuildAt(row, tick, channel, phase) ==
  [row |-> row, tick |-> tick, channel |-> channel, phase |-> phase, written |-> 0]

BuildStart(pattern) ==
  IF pattern = <<>> THEN BuildAt(1, 0, 1, "done") ELSE BuildAt(1, 0, 1, "cell")

BuildInit ==
  /\ samples = BuildStore
  /\ input \in BuildInputs
  /\ sessions = <<>>
  /\ channelStates = NewChannelStates(NumChannels(input.pattern))
  /\ loads = <<>>
  /\ conversion = NoConversion
  /\ LoadersNew
  /\ ServiceNew
  /\ build = BuildStart(input.pattern)
  /\ mix = MixIdle
  /\ web = WebNew

\* const step = steps[channelIndex], undefined past the end of the row
StepOf(row, channel) ==
  IF channel <= Len(input.pattern[row].steps) THEN input.pattern[row].steps[channel]
  ELSE NullStep

\* const state = channelStates[channelIndex]: every write goes to the
\* object of this one channel
SetChannelShared(states, channel, state) == [c \in DOMAIN states |-> state]

SetChannel(states, channel, state) == [states EXCEPT ![channel] = state]

\* the loop variables after the body: next channel, next tick, next row
NextBuild ==
  IF build.channel < Len(channelStates)
  THEN BuildAt(build.row, build.tick, build.channel + 1, "cell")
  ELSE IF build.tick + 1 < SpeedOf(input.options)
  THEN BuildAt(build.row, build.tick + 1, 1, "cell")
  ELSE IF build.row < Len(input.pattern)
  THEN BuildAt(build.row + 1, 0, 1, "cell")
  ELSE BuildAt(build.row, build.tick, build.channel, "done")

\* lines 695-749: the cell of this channel, at tick 0
BuildCell ==
  /\ build.phase = "cell"
  /\ \E p \in {ProcessStep(channelStates[build.channel], StepOf(build.row, build.channel),
                           build.tick, samples)} :
       IF p.err # ""
       THEN /\ build' = [build EXCEPT !.phase = "thrown"]
            /\ UNCHANGED channelStates
       ELSE /\ build' = [build EXCEPT !.phase = "delayed"]
            /\ channelStates' = SetChannel(channelStates, build.channel, p.state)
  /\ UNCHANGED <<samples, input, sessions, loads, conversion, loaders, serving, mix,
                 web>>

\* lines 751-769: the delayed note of this channel
BuildDelayed ==
  /\ build.phase = "delayed"
  /\ build' = [build EXCEPT !.phase = "render"]
  /\ channelStates' = SetChannel(channelStates, build.channel,
                                 CheckDelayed(channelStates[build.channel]))
  /\ UNCHANGED <<samples, input, sessions, loads, conversion, loaders, serving, mix,
                 web>>

\* lines 774-826: one pass of the rendering loop, or no pass at all for a
\* channel that is not active
BuildRender ==
  /\ build.phase = "render"
  /\ IF ~channelStates[build.channel].active
     THEN /\ build' = NextBuild
          /\ UNCHANGED channelStates
     ELSE \E r \in {RenderFrames(channelStates[build.channel], 1)} :
            IF r.err # ""
            THEN /\ build' = [build EXCEPT !.phase = "thrown"]
                 /\ UNCHANGED channelStates
            ELSE /\ channelStates' = SetChannel(channelStates, build.channel, r.state)
                 /\ build' = IF r.out = <<>>
                                \/ build.written + 1
                                     >= TickDurationSamples(TempoOf(input.options))
                             THEN NextBuild
                             ELSE [build EXCEPT !.written = build.written + 1]
  /\ UNCHANGED <<samples, input, sessions, loads, conversion, loaders, serving, mix,
                 web>>

BuildNext == BuildCell \/ BuildDelayed \/ BuildRender

BuildSpec == BuildInit /\ [][BuildNext]_vars

(***************************************************************************)
(* mixChannels applied to channel buffers of its own: four channels, or    *)
(* sixteen loud ones, of one tick buffer of one frame each.                *)
(***************************************************************************)
MixLefts == {Int16Min, -1, 4, Int16Max}
MixRights == {-1, 0}

\* sixteen channels at full scale, the first k of one sign and the rest of
\* the other
MixWideInputs ==
  {[c \in 1..(MinChannels * MinChannels) |->
      <<(<<IF c <= k THEN l ELSE -l, 0>>)>>] :
     k \in 0..(MinChannels * MinChannels), l \in {Int16Max, -Int16Max}}

MixInputs ==
  [1..MinChannels -> {<<(<<l, r>>)>> : l \in MixLefts, r \in MixRights}]
    \cup MixWideInputs

MixInit ==
  /\ SamplerStart(SamplelessInputs)
  /\ conversion = NoConversion
  /\ LoadersNew
  /\ ServiceNew
  /\ build = BuildIdle
  /\ mix \in {[MixIdle EXCEPT !.buffers = b] : b \in MixInputs}
  /\ web = WebNew

\* const mixedBuffer = mixChannels(patternBuffers)
MixChannels ==
  /\ ~mix.done
  /\ mix' = [mix EXCEPT !.mixed = mixChannels(mix.buffers), !.done = TRUE]
  /\ UNCHANGED <<samplerVars, loads, conversion, loaders, serving, build, web>>

MixNext == MixChannels

MixSpec == MixInit /\ [][MixNext]_vars

(***************************************************************************)
(* Properties.                                                             *)
(***************************************************************************)
Calls == 1..Len(sessions)
CallPattern(s) == VariantPattern(s.call)
CallOptions(s) == VariantOptions(s.call)
Frames(buffer) == Len(buffer) \div 2

\* a call in infinite-repeat mode that got as far as playing
Looping(s) == s.infinite /\ s.err = ""

\* C1: in infinite-repeat mode the completion callback is invoked at most
\* once, and never before stop() has been called
CallbackOnceAndOnlyAfterStop ==
  \A i \in Calls :
     Looping(sessions[i]) =>
        /\ sessions[i].callbacks <= 1
        /\ sessions[i].callbacks > 0 => sessions[i].stopped

\* stop() arrived during the second loop and the callback has fired
StoppedInSecondLoopAndCalledBack ==
  \E i \in Calls :
     /\ Looping(sessions[i])
     /\ sessions[i].stopped
     /\ Len(sessions[i].speakers) = 2
     /\ sessions[i].callbacks = 1

\* C2: in infinite-repeat mode, once stop() has been called the completion
\* callback is eventually invoked (every sink eventually emits close)
StopLeadsToCallback ==
  \A i \in 1..MaxCalls :
     (i \in Calls /\ Looping(sessions[i]) /\ sessions[i].hasCallback /\ sessions[i].stopped)
        ~> (i \in Calls /\ sessions[i].callbacks = 1)

\* stop() arrived during the first loop, the loop ended and the callback fired
StoppedInFirstLoopAndCalledBack ==
  \E i \in Calls :
     /\ Looping(sessions[i])
     /\ sessions[i].hasCallback
     /\ sessions[i].stopped
     /\ Len(sessions[i].speakers) = 1
     /\ sessions[i].speakers[1].closed
     /\ sessions[i].callbacks = 1

\* every sink of an infinite-repeat session was handed the whole mixed
\* pattern, and a sink that closed has played all of it
LoopsPlayedInFull(s) ==
  \A mixed \in {mixChannels(s.patternBuffers)} :
     \A k \in 1..Len(s.speakers) :
        /\ s.speakers[k].buffer = mixed
        /\ s.speakers[k].closed => s.speakers[k].played = Len(mixed)

\* C3: after stop() the loop being played is played in full and no further
\* loop is started
StopTakesEffectAtLoopBoundary ==
  [][\A i \in Calls :
        (Looping(sessions[i]) /\ sessions'[i] # sessions[i]) =>
           /\ LoopsPlayedInFull(sessions'[i])
           /\ sessions[i].stopped =>
                 Len(sessions'[i].speakers) = Len(sessions[i].speakers)]_vars

\* stop() arrived while a non-empty loop was playing; that loop then closed
StoppedLoopFinished ==
  \E i \in Calls :
     /\ Looping(sessions[i])
     /\ sessions[i].stopped
     /\ ~HasOpenSpeaker(sessions[i])
     /\ sessions[i].speakers[Len(sessions[i].speakers)].played > 0

\* the steps of a pattern, in the order the build visits them
StepPositions(pattern) ==
  {<<r, c>> : r \in 1..Len(pattern), c \in 1..5} \cap
  {rc \in (1..Len(pattern)) \X (1..5) :
      rc[2] <= Len(pattern[rc[1]].steps) /\ ~pattern[rc[1]].steps[rc[2]].nil}

StepAt(pattern, rc) == pattern[rc[1]].steps[rc[2]]

NamesUnregistered(pattern) ==
  \E rc \in StepPositions(pattern) : ~hasSample(StepAt(pattern, rc).sample)

\* C4: a pattern naming an unregistered sample makes playPattern fail with
\* sample-not-found before any sink is opened, finite or infinite repeat
UnregisteredSampleIsNotFound ==
  \A i \in Calls :
     (CallOptions(sessions[i]).bpm # 0 /\ NamesUnregistered(CallPattern(sessions[i]))) =>
        /\ sessions[i].err = "SampleNotFound"
        /\ sessions[i].speakers = <<>>

\* C5: rendering completes for every pattern of registered samples, and
\* every value of the output lies within the 16-bit range
ClippingContainment ==
  \A i \in Calls :
     (CallOptions(sessions[i]).bpm # 0 /\ ~NamesUnregistered(CallPattern(sessions[i]))) =>
        /\ sessions[i].err = ""
        /\ \A k \in 1..Len(sessions[i].speakers) :
              \A n \in 1..Len(sessions[i].speakers[k].buffer) :
                 InInt16(sessions[i].speakers[k].buffer[n])

\* a finite-repeat call that played: its one sink's buffer
Finite(s) == s.err = "" /\ ~s.infinite
Output(s) == IF s.speakers = <<>> THEN <<>> ELSE s.speakers[1].buffer

\* C6: with repeat = N (N positive) the output has exactly N times the
\* frames of the output with repeat = 1
RepeatScalesDuration ==
  \A i, j \in Calls :
     (/\ sessions[i].call = "same" /\ sessions[j].call = "once"
      /\ Finite(sessions[i]) /\ Finite(sessions[j])
      /\ input.options.repeat >= 1) =>
        Frames(Output(sessions[i])) = input.options.repeat * Frames(Output(sessions[j]))

\* the pattern was played with repeat = 3 and with repeat = 1, with audio
RepeatedThriceAndOnce ==
  \E i, j \in Calls :
     /\ sessions[i].call = "same" /\ sessions[j].call = "once"
     /\ Finite(sessions[i]) /\ Finite(sessions[j])
     /\ input.options.repeat = 3
     /\ Frames(Output(sessions[j])) > 0

InvalidRepeatRejected ==
  \A i \in Calls :
     (CallOptions(sessions[i]).bpm # 0 /\ CallOptions(sessions[i]).repeat < -1) =>
        /\ sessions[i].err = "InvalidArgument"
        /\ sessions[i].speakers = <<>>

AllEmpty(pattern) ==
  \A r \in 1..Len(pattern) :
     pattern[r].isArray /\ \A c \in 1..Len(pattern[r].steps) : pattern[r].steps[c].nil

ShortRowsRenderAsPadded ==
  \A i, j \in Calls :
     (sessions[i].call = "same" /\ sessions[j].call = "padded") =>
        /\ sessions[i].err = sessions[j].err
        /\ Output(sessions[i]) = Output(sessions[j])

\* a pattern with a one-slot row and a five-slot row was rendered as given
\* and padded, with audio
RaggedAndPaddedRendered ==
  \E i, j \in Calls :
     /\ sessions[i].call = "same" /\ sessions[j].call = "padded"
     /\ Finite(sessions[i]) /\ Finite(sessions[j])
     /\ \E r, q \in 1..Len(input.pattern) :
           Len(input.pattern[r].steps) = 1 /\ Len(input.pattern[q].steps) = 5
     /\ \E n \in 1..Len(Output(sessions[i])) : Output(sessions[i])[n] # 0

\* the non-empty cells of a pattern that carry no sample reference
SamplelessCells(pattern) ==
  {rc \in StepPositions(pattern) : StepAt(pattern, rc).sample = "undefined"}

\* C11: processing a non-empty cell that carries no sample reference succeeds
\* and leaves the channel's active flag, sample, play position and pitch as
\* they were; volume and pan change only when the cell gives them
SamplelessCellKeepsChannel ==
  \A i \in Calls :
     \A rc \in SamplelessCells(CallPattern(sessions[i])) :
        \A c \in DOMAIN channelStates :
           LET step == StepAt(CallPattern(sessions[i]), rc)
               before == channelStates[c]
               r == ProcessStep(before, step, 0, samples)
           IN /\ r.err = ""
              /\ r.state.active = before.active
              /\ r.state.sample = before.sample
              /\ r.state.position = before.position
              /\ r.state.pitchRatio = before.pitchRatio
              /\ step.volume = Undefined => r.state.volume = before.volume
              /\ step.pan = Undefined => r.state.pan = before.pan

\* C12: with bpm = B as the only timing option every row is rendered as
\* 60/B seconds of audio: frames x B = rows x repeat x 60 x sample rate
RowLastsSixtyOverBpm ==
  \A i \in Calls :
     LET s == sessions[i]
         o == CallOptions(s)
     IN (o.bpm # 0 /\ o.speed = 0 /\ o.tempo = 0 /\ Finite(s)) =>
           Frames(Output(s)) * o.bpm = Len(CallPattern(s)) * RepeatOf(o) * 60 * SampleRate

\* the loadSample calls of a name that read their file, in call order
LoadsOf(n) == {k \in DOMAIN loads : loads[k].name = n /\ loads[k].err = ""}
LastLoadOf(n) == loads[CHOOSE k \in LoadsOf(n) : \A j \in LoadsOf(n) : j <= k]

\* C13: after any sequence of loadSample calls hasSample(n) is true exactly
\* for the names loaded, and getSample(n) holds the bytes and metadata of the
\* most recent load of n; a re-load replaces that entry and no other
StoreHoldsLatestLoads ==
  \A n \in StoreNames \cup {"ghost"} :
     /\ hasSample(n) <=> LoadsOf(n) # {}
     /\ hasSample(n) =>
           /\ getSample(n).data = LastLoadOf(n).file.data
           /\ getSample(n).loopStart = LastLoadOf(n).options.loopStart
           /\ getSample(n).loopLength = LastLoadOf(n).options.loopLength
           /\ getSample(n).baseNote =
                 IF LastLoadOf(n).options.baseNote = <<>> THEN NoteC4
                 ELSE LastLoadOf(n).options.baseNote

\* kick was loaded, then pad, then kick again from another file with other
\* options
ReloadedWithOtherFile ==
  /\ Len(loads) = 3
  /\ loads[1].name = "kick" /\ loads[2].name = "pad" /\ loads[3].name = "kick"
  /\ \A k \in 1..3 : loads[k].err = ""
  /\ loads[1].file # loads[3].file
  /\ loads[1].options # loads[3].options
  /\ getSample("kick").data = loads[3].file.data
  /\ getSample("pad").data = loads[2].file.data

\* C14: for every loaded sample hasLoop is true exactly when loopLength > 2
HasLoopIffLoopLengthAboveTwo ==
  \A n \in DOMAIN samples : getSample(n).hasLoop <=> getSample(n).loopLength > 2

\* one sample with loop length 2 and no loop, one with loop length 3 and a loop
LoopLengthsTwoAndThreeLoaded ==
  \E n, m \in DOMAIN samples :
     /\ getSample(n).loopLength = 2 /\ ~getSample(n).hasLoop
     /\ getSample(m).loopLength = 3 /\ getSample(m).hasLoop

\* C15: a playPattern call, completed or failed, leaves the sample store as
\* it was: same names, same bytes, base notes and loop metadata
PlayPatternKeepsStore ==
  [][Len(sessions') > Len(sessions) => samples' = samples]_vars

\* with both samples registered a pattern has been played twice, with sound
PlayedTwiceWithSamples ==
  /\ DOMAIN samples = SampleNames
  /\ Len(sessions) = 2
  /\ \A i \in Calls :
        /\ Finite(sessions[i])
        /\ \E n \in 1..Len(Output(sessions[i])) : Output(sessions[i])[n] # 0

\* the note strings with one of the 12 note names: valid note strings
ValidNotes ==
  {n \o d \o <<o>> : n \in {noteNames[k] : k \in 1..12}, d \in {<<>>, <<"-">>},
                       o \in {Digits[k] : k \in 1..10}}

\* C16: for valid note strings A and B, noteToSemitones(A, B) is the
\* negative of noteToSemitones(B, A), and noteToSemitones(A, A) is 0, in the
\* Node sampler and in the browser sampler
NoteConversionAntisymmetric ==
  (/\ conversion.done
   /\ conversion.targetNote \in ValidNotes
   /\ conversion.baseNote \in ValidNotes) =>
     LET a == conversion.targetNote
         b == conversion.baseNote
     IN /\ conversion.node.err = "" /\ conversion.web.err = ""
        /\ noteToSemitones(b, a).err = "" /\ webNoteToSemitones(b, a).err = ""
        /\ conversion.node.val = -noteToSemitones(b, a).val
        /\ conversion.web.val = -webNoteToSemitones(b, a).val
        /\ noteToSemitones(a, a) = [err |-> "", val |-> 0]
        /\ webNoteToSemitones(a, a) = [err |-> "", val |-> 0]

\* A#9 against C0, spelled with and without the dash: 118 semitones up
ConvertedAcrossOctaves ==
  /\ conversion.done
  /\ conversion.targetNote = <<"A", "#", "9">>
  /\ conversion.baseNote = <<"C", "-", "0">>
  /\ conversion.node.val = 118
  /\ conversion.web.val = 118

\* the last call was a load of the MOD loader that returned normally
ModLoaded == lastLoad.loader = "mod" /\ lastLoad.err = ""

\* C17: after every successful MOD load, of a 15-sample file as of a
\* 31-sample one, the samples list has exactly 31 entries and every pattern
\* has exactly 64 rows of exactly 4 cells
ModLoadYieldsFullTables ==
  ModLoaded =>
    /\ Len(modLoader.samples) = 31
    /\ \A p \in 1..Len(modLoader.patterns) :
          /\ Len(modLoader.patterns[p]) = 64
          /\ \A row \in 1..64 : Len(modLoader.patterns[p][row]) = 4

\* a 15-sample file was loaded: its one pattern is parsed and the entries
\* 16 to 31 of the samples list are the padding
OldModulePadded ==
  /\ ModLoaded
  /\ lastLoad.file = "old"
  /\ Len(modLoader.patterns) = 1
  /\ modLoader.samples[1].length > 0
  /\ \A i \in 16..31 : modLoader.samples[i] = EmptyModSample

\* the module a MOD loader exposes
ModuleOf(loader) ==
  [title |-> loader.title, samples |-> loader.samples,
   patternTable |-> loader.patternTable, patterns |-> loader.patterns,
   initialSpeed |-> loader.initialSpeed, initialTempo |-> loader.initialTempo]

\* C18: the module exposed after a successful load is determined by the file
\* bytes alone: on a loader that loaded other files before, it is the module
\* a fresh loader yields for the same file
LoadedModuleIsOfFileAlone ==
  ModLoaded =>
    ModuleOf(modLoader) =
      ModuleOf(modLoad(NewModLoader, ModFiles[lastLoad.file]).loader)

\* what a caller can read of the module of each loader
ObservableModules ==
  <<modLoader.title, modLoader.samples, modLoader.patternTable, modLoader.patterns,
    s3mLoader.title, s3mLoader.instruments, s3mLoader.orders, s3mLoader.patterns>>

\* C19: a load that fails, by a signature mismatch or by a read past the end
\* of the file, leaves the loader's title, instruments or samples, order
\* list and patterns as they were before the call
FailedLoadLeavesModule ==
  [][lastLoad'.err # "" => ObservableModules' = ObservableModules]_vars

\* the S3M cell that row k of a conversion from order 0 on is made of
S3mCellOf(k, ch) ==
  s3mLoader.patterns[s3mLoader.orders[((k - 1) \div 64) + 1] + 1][((k - 1) % 64) + 1][ch]

\* the converted cells whose S3M cell has a note and an instrument, is on an
\* enabled channel, and carries both a volume-column value and effect 0x0C
ColumnAndEffectCells(rows) ==
  {c \in (1..Len(rows)) \X (1..32) :
     /\ s3mLoader.channelSettings[c[2]].enabled
     /\ IsNoteCell(S3mCellOf(c[1], c[2]))
     /\ S3mCellOf(c[1], c[2]).volume # Undefined
     /\ S3mCellOf(c[1], c[2]).volume <= 64
     /\ S3mCellOf(c[1], c[2]).effect = 12}

\* C20: when an S3M cell with a note and an instrument carries both a
\* volume-column value and effect 0x0C, the converted cell's volume is the
\* effect's parameter capped at 64, whatever the column holds
EffectVolumeCappedOverColumn ==
  [][converted' # converted /\ converted'.err = "" =>
       \A c \in ColumnAndEffectCells(converted'.rows) :
          converted'.rows[c[1]][c[2]].volume =
             Min(S3mCellOf(c[1], c[2]).effectParam, 64)]_vars

\* C20 as stated: the converted cell's volume equals the effect's parameter,
\* for every parameter value, and not the column's value
EffectVolumeOverColumn ==
  [][converted' # converted /\ converted'.err = "" =>
       \A c \in ColumnAndEffectCells(converted'.rows) :
          /\ converted'.rows[c[1]][c[2]].volume = S3mCellOf(c[1], c[2]).effectParam
          /\ S3mCellOf(c[1], c[2]).volume # S3mCellOf(c[1], c[2]).effectParam
               => converted'.rows[c[1]][c[2]].volume # S3mCellOf(c[1], c[2]).volume]_vars

\* the loaded module was converted, with a cell of column 20 and C 10 that
\* became volume 10 and a cell of column 30 and C 80 that became volume 64
ColumnAndEffectConverted ==
  /\ converted.done /\ converted.err = ""
  /\ converted = convertPatterns(s3mLoader, 0, Len(s3mLoader.orders))
  /\ \E c \in ColumnAndEffectCells(converted.rows) :
        /\ S3mCellOf(c[1], c[2]).volume = 20
        /\ S3mCellOf(c[1], c[2]).effectParam = 10
        /\ converted.rows[c[1]][c[2]].volume = 10
  /\ \E c \in ColumnAndEffectCells(converted.rows) :
        /\ S3mCellOf(c[1], c[2]).volume = 30
        /\ S3mCellOf(c[1], c[2]).effectParam = 80
        /\ converted.rows[c[1]][c[2]].volume = 64

\* the plays queued so far, in the order of their requests
Enqueued == [n \in 1..Len(calls) |-> calls[n].play]

\* the plays the polls returned so far, poll after poll
RECURSIVE ReturnedUpTo(_)
ReturnedUpTo(k) == IF k = 0 THEN <<>> ELSE ReturnedUpTo(k - 1) \o polls[k]

\* C21: across any interleaving of enqueues and polls of any clients, every
\* enqueued play is returned by exactly one poll, the first one after it
\* was enqueued, in enqueue order, and the queue is empty right after each
\* poll: the polls' results followed by the queue are the enqueued plays,
\* and a poll returns the whole queue and leaves it empty
EveryPlayPolledOnceInOrder ==
  /\ [](ReturnedUpTo(Len(polls)) \o pendingPlays = Enqueued)
  /\ [][Len(polls') > Len(polls) =>
          /\ polls'[Len(polls')] = pendingPlays
          /\ pendingPlays' = <<>>]_vars

\* two plays queued through the two routes in one millisecond came back
\* from one poll in their order, which left the queue empty
TwoPolledInOrder ==
  /\ Len(calls) = 2
  /\ Len(polls) = 1
  /\ calls[1].route # calls[2].route
  /\ calls[1].play.startTime = calls[2].play.startTime
  /\ polls[1] = <<calls[1].play, calls[2].play>>
  /\ pendingPlays = <<>>

\* getPlay(playId) returns the data of the play of request n
Tracked(map, n) == getPlay(map, calls[n].play.playId) = calls[n].play

\* C22: every successful playNotes call returns a playId that identifies
\* that call's play alone: getPlay(playId) returns the data of that play
\* right after the call, and goes on returning it through every step that
\* is not a stopPlay or a clearAll, requests of the same millisecond included
PlayIdIdentifiesItsPlay ==
  [][/\ Len(calls') > Len(calls) /\ calls'[Len(calls')].route = "play-notes"
          => getPlay(activePlays', calls'[Len(calls')].play.playId)
                = calls'[Len(calls')].play
     /\ \A n \in 1..Len(calls) :
          /\ calls[n].route = "play-notes"
          /\ Tracked(activePlays, n)
          /\ (Len(calls') > Len(calls) \/ activePlays' = activePlays)
          => Tracked(activePlays', n)]_vars

\* C23: every play queued through POST /api/play-notes or POST
\* /api/play-pattern with musical BPM B (120 when none is sent) is played
\* by the polling browser client at 4 x B rows per minute
PolledPlayAtFourTimesBpm ==
  \A c \in Clients : \A i \in 1..Len(clients[c].played) :
     clients[c].played[i].tempo = 4 * calls[clients[c].played[i].call].musicalBpm

(***************************************************************************)
(* Channels of a build, step by step.                                      *)
(***************************************************************************)
\* the channel, and the cell, of the loop body the build is in
BuildChannel == channelStates[build.channel]
BuildCellStep == StepOf(build.row, build.channel)

\* line 712: a cell with a note delay
IsDelayCell(step) == ~step.nil /\ step.effect = "SD" /\ step.effectParam # 0

\* ticks from the start of the pattern to this tick of this row
TicksBefore(row, tick) == (row - 1) * SpeedOf(input.options) + tick

\* the row of the last cell with a note delay on this channel so far
DelayRow(channel) ==
  SetMax({r \in 1..build.row : IsDelayCell(StepOf(r, channel))})

\* the tick the delayed note of this channel is due: d ticks after the
\* start of its row
DueTick(channel) ==
  TicksBefore(DelayRow(channel), StepOf(DelayRow(channel), channel).effectParam)

\* C24: a cell with note delay d at some row switches its channel to the
\* delayed note exactly at the start of tick d of that row, d ticks after
\* the row begins, not earlier (the switch happens in the tick that is
\* due) and not later (no note is still pending after its tick)
DelayedNoteStartsAtItsTick ==
  /\ [][\A ch \in DOMAIN channelStates :
          channelStates[ch].delayedNote.set /\ ~channelStates'[ch].delayedNote.set
            => TicksBefore(build.row, build.tick) = DueTick(ch)]_vars
  /\ [](\A ch \in DOMAIN channelStates :
          channelStates[ch].delayedNote.set /\ build.phase = "render"
            => TicksBefore(build.row, build.tick) < DueTick(ch))

\* Math.pow(2, semitone / 12) of the note of a cell on its sample
CellRatio(step) ==
  IF step.note.str
  THEN PitchRatio(noteToSemitones(step.note.chars, samples[step.sample].baseNote).val)
  ELSE PitchRatio(step.note.semi)

\* C25: when a cell (without note delay) arrives at tick 0 on a channel that
\* is active with the same sample and the same pitch ratio, the position is
\* not reset and playback continues from where it was; in every other case
\* the position is reset to 0, the loop bounds are reloaded and the channel
\* becomes active; in both cases volume and pan are set from the cell
CellContinuesOrRestarts ==
  [][/\ build.phase = "cell" /\ build'.phase = "delayed"
     /\ build.tick = 0 /\ ~BuildCellStep.nil /\ ~IsDelayCell(BuildCellStep)
     => LET old == channelStates[build.channel]
            new == channelStates'[build.channel]
            cell == BuildCellStep
            sample == samples[cell.sample]
        IN /\ IF old.active /\ old.sample = cell.sample
                            /\ old.pitchRatio = CellRatio(cell)
              THEN /\ new.position = old.position
                   /\ new.active
                   /\ new.sample = old.sample /\ new.sampleData = old.sampleData
                   /\ new.pitchRatio = old.pitchRatio
                   /\ <<new.hasLoop, new.loopStart, new.loopEnd>>
                        = <<old.hasLoop, old.loopStart, old.loopEnd>>
              ELSE /\ new.position = 0
                   /\ new.active
                   /\ new.sample = cell.sample /\ new.sampleData = sample.data
                   /\ new.pitchRatio = CellRatio(cell)
                   /\ new.hasLoop = sample.hasLoop
                   /\ new.loopStart = sample.loopStart
                   /\ new.loopEnd = sample.loopStart + sample.loopLength
           /\ new.volume = IF cell.volume # Undefined THEN cell.volume ELSE DefaultVolume
           /\ new.pan = IF cell.pan # Undefined THEN cell.pan ELSE DefaultPan
           /\ new.delayedNote = old.delayedNote /\ new.delayTicks = old.delayTicks]_vars

\* the cell of row 2 repeated the looping note of row 1 with a volume of
\* its own and no pan: the channel plays on from its position, at the
\* volume of the cell and the default pan
SameNoteContinued ==
  /\ build.phase = "delayed" /\ build.tick = 0 /\ build.row = 2
  /\ BuildCellStep = PadC4Quiet
  /\ BuildChannel.active /\ BuildChannel.sample = "pad"
  /\ BuildChannel.position > 0
  /\ BuildChannel.volume = PadC4Quiet.volume /\ BuildChannel.pan = DefaultPan

\* C26: any transition of one channel (immediate trigger, storage,
\* countdown or trigger of a delayed note, loop wrap, exhaustion) leaves
\* the state of every other channel unchanged
OtherChannelsUnchanged ==
  [][\A c \in DOMAIN channelStates :
        c # build.channel => channelStates'[c] = channelStates[c]]_vars

\* channel 1 has rendered a frame of its note while the delayed note of
\* channel 2 is still pending with its countdown
RenderedBesidePendingNote ==
  /\ build.phase = "render" /\ build.channel = 1 /\ build.written > 0
  /\ channelStates[1].active /\ channelStates[1].position > 0
  /\ channelStates[2].delayedNote.set /\ channelStates[2].delayTicks > 0
  /\ ~channelStates[2].active

\* C27: a channel that was triggered with a looping sample (loopLength > 2)
\* is active at every later tick until a later cell on that channel triggers
\* a different note; it never becomes idle by running past the end of the
\* sample
LoopingChannelStaysActive ==
  [][\A c \in DOMAIN channelStates :
        channelStates[c].active /\ channelStates[c].hasLoop
          => channelStates'[c].active]_vars

\* lines 783-784: Math.floor(position * pitchRatio) and the fraction left,
\* in units of the ratio's denominator
SourceIndex(state) == (state.position * state.pitchRatio[1]) \div state.pitchRatio[2]
SourceFraction(state) == (state.position * state.pitchRatio[1]) % state.pitchRatio[2]

\* lines 787-791: the index after loop wrapping
ActualIndex(state) ==
  IF state.hasLoop /\ SourceIndex(state) >= state.loopEnd
  THEN state.loopStart
         + ((SourceIndex(state) - state.loopStart) % (state.loopEnd - state.loopStart))
  ELSE SourceIndex(state)

\* both bytes read whenever the position has a fraction
ReadsOfUnguarded(state) ==
  IF SourceFraction(state) > 0
  THEN {ActualIndex(state), ActualIndex(state) + 1}
  ELSE {ActualIndex(state)}

\* lines 805-810: the indices readInt8 is called with in one pass
ReadsOf(state) ==
  IF SourceFraction(state) > 0 /\ ActualIndex(state) + 1 < Len(state.sampleData)
  THEN {ActualIndex(state), ActualIndex(state) + 1}
  ELSE {ActualIndex(state)}

\* C28: for a looping channel, once the source index has reached the loop
\* end, every sample byte read to produce output, the second byte used for
\* interpolation included, lies in [loopStart, loopStart + loopLength)
LoopReadsInsideLoop ==
  [][/\ build.phase = "render"
     /\ BuildChannel.active /\ BuildChannel.hasLoop
     /\ SourceIndex(BuildChannel) >= BuildChannel.loopEnd
     /\ channelStates'[build.channel].position > BuildChannel.position
     => ReadsOf(BuildChannel)
          \subseteq BuildChannel.loopStart..(BuildChannel.loopEnd - 1)]_vars

(***************************************************************************)
(* The mix.                                                                *)
(***************************************************************************)
\* the contributions of channels c.. to value i of the mix
RECURSIVE ContributionsFrom(_, _, _)
ContributionsFrom(c, buffers, i) ==
  IF c > Len(buffers) THEN 0
  ELSE Flatten(buffers[c])[i] + ContributionsFrom(c + 1, buffers, i)

\* the channels with two of them exchanged
Exchanged(buffers, a, b) ==
  [c \in DOMAIN buffers |-> IF c = a THEN buffers[b] ELSE IF c = b THEN buffers[a]
                            ELSE buffers[c]]

\* C29: each mixed output value equals the scaled sum of all channels'
\* contributions for that frame, clamped once to the 16-bit range, and the
\* result does not depend on the order in which the channels are mixed
MixIsScaledSumInAnyOrder ==
  mix.done =>
    /\ \A i \in DOMAIN mix.mixed :
         mix.mixed[i] = StoreMixed(ContributionsFrom(1, mix.buffers, i)
                                     * ScaleFactor(Len(mix.buffers)))
    /\ \A a, b \in DOMAIN mix.buffers :
         mixChannels(Exchanged(mix.buffers, a, b)) = mix.mixed

(***************************************************************************)
(* Initial speed and tempo of a MOD file.                                  *)
(***************************************************************************)
\* cell k of the first three order positions, row by row, channel by channel
OrderCell(loader, k) ==
  loader.patterns[loader.patternTable[(k \div 256) + 1] + 1]
                 [((k % 256) \div 4) + 1][(k % 4) + 1]

\* the cells with effect 0xF among them
TempoCells(loader) == {k \in 0..(3 * 256 - 1) : OrderCell(loader, k).effect = 15}

\* C30: after a MOD load, initial speed and tempo are taken from the first
\* 0xF-effect cell found within the first three order positions: a
\* parameter below 32 sets the speed, a parameter of 32 or more sets the
\* tempo; if there is no such cell, speed is 6 and tempo is 125
InitialTempoFromFirstEffect ==
  ModLoaded =>
    IF TempoCells(modLoader) = {}
    THEN modLoader.initialSpeed = DefaultSpeed /\ modLoader.initialTempo = DefaultTempo
    ELSE LET note == OrderCell(modLoader, SetMin(TempoCells(modLoader)))
         IN IF note.effectParam < 32
            THEN modLoader.initialSpeed = note.effectParam
            ELSE modLoader.initialTempo = note.effectParam

(***************************************************************************)
(* The S3M module and its conversion.                                      *)
(***************************************************************************)
\* the last call was a load of the S3M loader that returned normally
S3mLoaded == lastLoad.loader = "s3m" /\ lastLoad.err = ""

\* C31: after every successful S3M load, patterns.length equals the header's
\* pattern count and every pattern, one whose parapointer is zero included,
\* has exactly 64 rows with exactly 32 channel slots each
S3mLoadYieldsFullPatterns ==
  S3mLoaded =>
    /\ Len(s3mLoader.patterns) = U16LE(S3mFiles[lastLoad.file], 36)
    /\ \A p \in 1..Len(s3mLoader.patterns) :
          /\ Len(s3mLoader.patterns[p]) = 64
          /\ \A row \in 1..64 : Len(s3mLoader.patterns[p][row]) = 32

\* a conversion was made, and returned
Converted(loader) ==
  /\ <<converted, convertArgs>>' # <<converted, convertArgs>>
  /\ convertArgs'.loader = loader
  /\ converted'.err = ""

\* the positions a conversion covers: how many, and the one of row k
PositionsOf(args, orders) ==
  Max(0, Min(args.startOrder + args.numOrders, Len(orders)) - args.startOrder)
PositionOf(args, k) == args.startOrder + ((k - 1) \div 64) + 1

\* the S3M cell that row k of the conversion is to be made of
S3mSourceCell(k, ch) ==
  LET row == s3mLoader.patterns[s3mLoader.orders[PositionOf(convertArgs', k)] + 1]
                               [((k - 1) % 64) + 1]
  IN IF ch <= Len(row) THEN row[ch] ELSE NoCell

\* the MOD cell that row k of the conversion is to be made of
ModSourceCell(k, ch) ==
  modLoader.patterns[modLoader.patternTable[PositionOf(convertArgs', k)] + 1]
                    [((k - 1) % 64) + 1][ch]

\* C32: convertPatterns(start, n) returns the rows of order-list positions
\* start .. min(start + n, number of orders) - 1 in order-list sequence, 64
\* rows per position, each row with exactly 32 slots for S3M (4 for MOD), and
\* every slot of a disabled S3M channel is empty whatever the pattern holds
ConvertedRowsOfPositions ==
  [][/\ Converted("s3m") =>
          /\ Len(converted'.rows) = 64 * PositionsOf(convertArgs', s3mLoader.orders)
          /\ \A k \in 1..Len(converted'.rows) :
                /\ Len(converted'.rows[k]) = 32
                /\ \A ch \in 1..32 :
                      /\ s3mLoader.channelSettings[ch].raw >= 128
                           => converted'.rows[k][ch].nil
                      /\ ~converted'.rows[k][ch].nil
                           => /\ IsNoteCell(S3mSourceCell(k, ch))
                              /\ converted'.rows[k][ch].sample
                                   = <<"s3m_inst_", S3mSourceCell(k, ch).instrument - 1>>
                      /\ (/\ s3mLoader.channelSettings[ch].raw < 128
                          /\ IsNoteCell(S3mSourceCell(k, ch))
                          /\ ~hasNoteDelay(S3mSourceCell(k, ch)))
                           => ~converted'.rows[k][ch].nil
     /\ Converted("mod") =>
          /\ Len(converted'.rows) = 64 * PositionsOf(convertArgs', modLoader.patternTable)
          /\ \A k \in 1..Len(converted'.rows) :
                /\ Len(converted'.rows[k]) = 4
                /\ \A ch \in 1..4 :
                      IF ModSourceCell(k, ch).sample > 0 /\ ModSourceCell(k, ch).period > 0
                      THEN /\ ~converted'.rows[k][ch].nil
                           /\ converted'.rows[k][ch].sample
                                = <<"mod_sample_", ModSourceCell(k, ch).sample - 1>>
                      ELSE converted'.rows[k][ch].nil]_vars

\* the module played in the order 1, 0 was converted from position 1 on with
\* a count past the end: the 64 rows of pattern 0, with its notes on channels
\* 1 and 2 and nothing for the note on channel 3, which is disabled
SecondPositionConverted ==
  /\ S3mLoaded /\ lastLoad.file = "pair"
  /\ convertArgs = [loader |-> "s3m", startOrder |-> 1, numOrders |-> 3]
  /\ converted = convertPatterns(s3mLoader, 1, 3)
  /\ converted.err = "" /\ Len(converted.rows) = 64
  /\ IsNoteCell(s3mLoader.patterns[1][1][3])
  /\ ~converted.rows[1][1].nil /\ converted.rows[1][3].nil
  /\ ~converted.rows[2][2].nil

\* a note cell that is converted at once
IsPlayedCell(cell) == IsNoteCell(cell) /\ ~hasNoteDelay(cell)

\* lines 481-490: the cell sets the volume explicitly, by its volume column
\* (0..64) or by effect 0x0C
SetsVolume(cell) ==
  \/ cell.volume # Undefined /\ cell.volume <= 64
  \/ cell.effect = 12 /\ cell.effectParam # Undefined

\* the rows before row k whose note on this channel set the volume
VolumeRowsBefore(k, ch) ==
  {j \in 1..(k - 1) : IsPlayedCell(S3mSourceCell(j, ch)) /\ SetsVolume(S3mSourceCell(j, ch))}

\* C33: across the rows of an S3M conversion, per channel, a note cell with
\* neither a volume column nor effect 0x0C takes the volume most recently set
\* explicitly on that channel, for every value 0..64 including 64; the
\* instrument's default volume is used only for a note on a channel that has
\* had no explicit volume so far
BareNoteKeepsChannelVolume ==
  [][Converted("s3m") =>
       \A k \in 1..Len(converted'.rows) : \A ch \in 1..32 :
          (/\ s3mLoader.channelSettings[ch].enabled
           /\ IsPlayedCell(S3mSourceCell(k, ch))
           /\ ~SetsVolume(S3mSourceCell(k, ch)))
          => converted'.rows[k][ch].volume =
               IF VolumeRowsBefore(k, ch) = {}
               THEN s3mLoader.instruments[S3mSourceCell(k, ch).instrument].volume
               ELSE converted'.rows[SetMax(VolumeRowsBefore(k, ch))][ch].volume]_vars

\* C34: the S3M adapter converts a cell that has a note, an instrument and
\* the note-delay effect SDx (x in 1..15) on an enabled channel into a
\* non-empty pattern cell that carries that note with a delay of x ticks
DelayedNoteConverted ==
  [][Converted("s3m") =>
       \A k \in 1..Len(converted'.rows) : \A ch \in 1..32 :
          (/\ s3mLoader.channelSettings[ch].enabled
           /\ IsNoteCell(S3mSourceCell(k, ch))
           /\ hasNoteDelay(S3mSourceCell(k, ch)))
          => /\ ~converted'.rows[k][ch].nil
             /\ converted'.rows[k][ch].sample
                  = <<"s3m_inst_", S3mSourceCell(k, ch).instrument - 1>>
             /\ converted'.rows[k][ch].effect = "SD"
             /\ converted'.rows[k][ch].effectParam
                  = S3mSourceCell(k, ch).effectParam % 16]_vars

\* the loader whose play() this step called, if it got to playPattern
PlayedLoader ==
  IF convertArgs'.loader = "s3m" THEN s3mLoader ELSE modLoader

\* C35: when a loader plays a module whose initial speed is S and initial
\* tempo is T, every row is rendered as S ticks of 2.5/T seconds each
RowsAtModuleSpeedAndTempo ==
  [][playback' # playback =>
       /\ playback'.speed = PlayedLoader.initialSpeed
       /\ playback'.tickDurationSamples
            = TickDurationSamples(PlayedLoader.initialTempo)]_vars

\* the pattern names a sample that is not registered
WebNamesUnregistered(pattern, store) ==
  \E r \in DOMAIN pattern : \E c \in DOMAIN pattern[r].steps :
     /\ ~pattern[r].steps[c].nil /\ pattern[r].steps[c].sample # "undefined"
     /\ pattern[r].steps[c].sample \notin DOMAIN store

\* C36: in the browser sampler, playPattern on a pattern that references an
\* unregistered sample is fatal: it raises a sample-not-found error and
\* schedules none of the pattern's notes
WebMissingSampleIsFatal ==
  [][(/\ web' # web /\ web'.samples = web.samples
      /\ WebNamesUnregistered(web'.pattern, web.samples))
     => /\ web'.err = "SampleNotFound"
        /\ web'.scheduled = <<>>]_vars

\* the sinks of a session that have not emitted close
OpenSpeakers(s) == {k \in 1..Len(s.speakers) : ~s.speakers[k].closed}

\* C37: in infinite-repeat mode at most one output sink is open at any time:
\* the sink of the next iteration is opened only after the sink of the
\* previous iteration has emitted close
OneOpenSinkPerLoop ==
  /\ [](\A i \in Calls :
          Looping(sessions[i]) =>
             /\ Cardinality(OpenSpeakers(sessions[i])) <= 1
             /\ OpenSpeakers(sessions[i]) \subseteq {Len(sessions[i].speakers)})
  /\ [][\A i \in Calls :
          (Looping(sessions[i])
             /\ Len(sessions'[i].speakers) > Len(sessions[i].speakers)) =>
                /\ sessions[i].speakers # <<>>
                /\ OpenSpeakers(sessions[i]) = {Len(sessions[i].speakers)}
                /\ OpenSpeakers(sessions'[i]) = {Len(sessions'[i].speakers)}]_vars

\* the second iteration of a loop is playing and the sink of the first has
\* closed
SecondLoopPlayingAlone ==
  \E i \in Calls :
     /\ Looping(sessions[i])
     /\ Len(sessions[i].speakers) = 2
     /\ sessions[i].speakers[1].closed
     /\ ~sessions[i].speakers[2].closed
     /\ sessions[i].speakers[2].buffer # <<>>

\* the row of the last cell with a sample on this channel so far
LastCellRow(channel) ==
  SetMax({r \in 1..build.row :
            ~StepOf(r, channel).nil /\ StepOf(r, channel).sample # "undefined"})

\* C38: for any delay value and any speed, a pending delayed note never
\* triggers after a newer cell on the same channel has been processed: the
\* note that triggers is the one of the last cell of the channel, which a
\* later cell, immediate or delayed, has not superseded
PendingNoteSupersededByNewerCell ==
  [][\A ch \in DOMAIN channelStates :
        (channelStates[ch].delayedNote.set /\ ~channelStates'[ch].delayedNote.set)
          => /\ IsDelayCell(StepOf(LastCellRow(ch), ch))
             /\ channelStates'[ch].sample = StepOf(LastCellRow(ch), ch).sample
             /\ channelStates'[ch].volume = StepOf(LastCellRow(ch), ch).volume]_vars

\* the play is tracked: playNotes has stored it and neither stopPlay nor
\* clearAll has removed it
IsActivePlay(playId) == \E i \in 1..Len(activePlays) : activePlays[i].key = playId

\* the plays of playNotes that the response of a poll holds
NotesPlaysIn(response) ==
  {n \in 1..Len(calls) :
     /\ calls[n].route = "play-notes"
     /\ \E k \in 1..Len(response) : response[k] = calls[n].play}

\* C39: after stopPlay(playId) has returned true or clearAll() has been
\* called, the affected plays are not returned by any later getPendingPlays
\* call: every play of playNotes that a poll returns is still tracked
StoppedPlayNeverPolled ==
  [][Len(polls') > Len(polls) =>
       \A n \in NotesPlaysIn(polls'[Len(polls')]) :
          IsActivePlay(calls[n].play.playId)]_vars

\* C40: for any sample length, loop bounds and pitch ratio, every PCM read
\* made while rendering uses an index i with 0 <= i < sample length: in
\* every pass of the rendering loop that writes a frame, the indices read
\* lie inside the sample data
ReadsInsideSampleData ==
  [][(/\ build.phase = "render"
      /\ BuildChannel.active
      /\ channelStates'[build.channel].position > BuildChannel.position)
     => ReadsOf(BuildChannel) \subseteq 0..(Len(BuildChannel.sampleData) - 1)]_vars

\* a channel in the middle of its sample is about to render a frame from
\* the last byte of the data at a position with a fraction, where there is
\* no second byte to interpolate with
LastByteAtFraction ==
  /\ build.phase = "render"
  /\ BuildChannel.active
  /\ BuildChannel.position > 0
  /\ SourceFraction(BuildChannel) > 0
  /\ ~(BuildChannel.hasLoop /\ SourceIndex(BuildChannel) >= BuildChannel.loopEnd)
  /\ SourceIndex(BuildChannel) = Len(BuildChannel.sampleData) - 1
====
